---- MODULE Spec2Model ----
(***************************************************************************)
(* Session orchestration core of the USERS browser extension.              *)
(*                                                                         *)
(* The background service worker (src/extension/background.js) holds two   *)
(* module-level variables, teachState and executeState, a message router,  *)
(* the asynchronous replay loop runExecuteLoop, the asynchronous recovery  *)
(* handler handleRecovery and completeExecution.  JavaScript runs each     *)
(* piece of code between two awaits atomically, so every action below is   *)
(* one such piece: a message handler up to its first await, or one         *)
(* continuation of an async function up to its next await.  The content    *)
(* script's action dispatcher (src/extension/content.js, executeAction)    *)
(* is the receiver of EXECUTE_ACTION.                                      *)
(*                                                                         *)
(* The teach side is the popup's teach screen (startRecording,             *)
(* stopRecording, restoreTeachSession), the TEACH_START, TEACH_STOP and    *)
(* CONTENT_CLICK cases of the router with handleTeachClick, and the        *)
(* content script's teach mode (its click listener, its storage recovery   *)
(* and its TEACH_MODE_ON / TEACH_MODE_OFF handlers).  Spec is the replay   *)
(* side, SpecTeach the teach side; they share the module's variables and   *)
(* each leaves the other side's variables as they are.                     *)
(***************************************************************************)
EXTENDS Integers, Sequences, FiniteSets, Bags, TLC

\* ------------------------------------------------------------------ bounds
\* EXECUTE_START messages received in one run of the service worker.  Every
\* start calls runExecuteLoop once; the start-execution response gives each
\* one its own execution id (content.js:1268-1288), here 1, 2, ...
MaxStarts == 2
\* largest totalSteps carried by an EXECUTE_START message
MaxSteps == 2
\* invocations of handleRecovery that may be in flight at the same time
MaxRecovers == 1
\* teach session ids handed out by the backend's start-teach request
MaxTeachIds == 1
\* clicks the user makes in the recorded page
MaxClicks == 2
\* messages waiting to be handled by the service worker
MaxInFlight == 2
\* length of the text in the popup's workflow name field
MaxNameLen == 1
\* length of the text of a type command
MaxTextLen == 2
\* length of a scroll command's value when it is a string
MaxValueLen == 2
\* EXECUTE_ACTION messages whose executeAction has not resolved
MaxActions == 2
\* automation runs the dock variant begins
MaxRuns == 2

ExecIds == 1..MaxStarts
StepIdx == 0..MaxSteps
RecoverSlots == 1..MaxRecovers
TeachIds == 1..MaxTeachIds

\* ------------------------------------------------------- action commands
\* the four kinds executeAction knows, and one it does not
KnownTypes == {"click", "type", "navigate", "scroll"}
ActionTypes == KnownTypes \cup {"drag"}

\* the characters of a workflow name: white space and a letter
Chars == {" ", "a"}
Names == UNION {[1..n -> Chars] : n \in 0..MaxNameLen}

VARIABLES
  teachState,      \* <<>> (null) or <<[sessionId]>>
  executeState,    \* <<>> (null) or <<[executionId, totalSteps, stepIndex, running, awaitingRecovery]>>
  stored,          \* chrome.storage.session: [teachState, executeState]
  started,         \* number of EXECUTE_START messages sent to the service worker so far
  loops,           \* the invocations of runExecuteLoop that have not returned: a bag of
                   \* [pc, eid, idx, act], the await each is suspended at and its locals
                   \* executionId, stepIndex and result.action.type
  rec,             \* per slot: an invocation of handleRecovery in flight, [pc, eid,
                   \* idx, early]; early is history: a recovery request was raised
                   \* after this invocation began
  sent,            \* what the last step sent: requests, popup and tab messages, page effects
  hist,            \* per execution id: history of what was observed so far
  content,         \* the content script of the recorded page: [teachModeActive, stepIndex,
                   \* pc], pc = "get" while its chrome.storage.session.get is unanswered
  popup,           \* <<>> (closed) or <<[view, nameInput, teachSessionId, isRecording,
                   \* starting, finishing, activeExecution, startingExec]>>: the popup's
                   \* screen, its name field, its globals, its start-teach and
                   \* finish-teach requests in flight, and the totalSteps of each
                   \* startExecution suspended at its start-execution request
  toBg,            \* messages sent to the service worker and not yet handled, in order
  toTab,           \* [msgs, events]: tab messages and storage.onChanged events on their
                   \* way to the content script, each in order
  clicks,          \* the invocations of handleTeachClick that have not returned: a bag
                   \* of [pc, idx]
  issued,          \* number of teach session ids the backend has handed out
  clicked,         \* number of clicks the user has made
  lastClick,       \* the stepIndex attached to the latest click of the teach session
                   \* the service worker holds (-1: none yet)
  page,            \* the document the content script acts on: [overlay, control,
                   \* value, runs], whether an overlay covers the viewport, the tag
                   \* and the value of its text control, and the invocations of
                   \* executeAction that have not resolved
  gemini           \* the dock variant of the service worker: [context, runs, started],
                   \* geminiExecutionContext (<<>>: null), the invocations of
                   \* handleGeminiAgentRun that have not returned, and the number of
                   \* runs begun

teachSide == <<content, popup, toBg, toTab, clicks, issued, clicked, lastClick>>
replaySide == <<executeState, started, loops, rec>>

vars == <<teachState, executeState, stored, started, loops, rec, sent, hist,
          content, popup, toBg, toTab, clicks, issued, clicked, lastClick, page, gemini>>

Null == <<>>

\* a message, request or page effect; eid = 0 and idx = -1 where it has none
Msg(k, eid, idx, arg) == [k |-> k, eid |-> eid, idx |-> idx, arg |-> arg]

Has(s, k) == \E i \in 1..Len(s) : s[i].k = k

Min(a, b) == IF a < b THEN a ELSE b

\* ---------------------------------------------------------------- history
\* What has been observed of each execution id so far.  lastReq: index of the
\* latest execute-step request (-1: none); clean: no capture failure, no
\* execute-step failure and no recovery_needed so far; completed: the
\* Completed event was emitted; stoppedAwaiting: EXECUTE_STOP was handled
\* while this execution was awaiting recovery; stopped: EXECUTE_STOP was handled
\* while executeState held this execution.  The history of an execution
\* id is dropped once neither executeState nor any loop's locals hold the id:
\* from then on nothing can be sent in its name.
NoHist == [lastReq |-> -1, clean |-> TRUE, completed |-> FALSE, stoppedAwaiting |-> FALSE,
           stopped |-> FALSE]

Observe1(h, m) ==
  IF m.eid \notin ExecIds THEN h
  ELSE IF m.k = "execute_step" THEN [h EXCEPT ![m.eid].lastReq = m.idx]
  ELSE IF m.k \in {"capture_failed", "infer_failed", "recovery"} THEN [h EXCEPT ![m.eid].clean = FALSE]
  ELSE IF m.k = "complete" THEN [h EXCEPT ![m.eid].completed = TRUE]
  ELSE IF m.k = "stopped_awaiting" THEN [h EXCEPT ![m.eid].stoppedAwaiting = TRUE]
  ELSE IF m.k = "stopped" THEN [h EXCEPT ![m.eid].stopped = TRUE]
  ELSE h

RECURSIVE Observe(_, _)
Observe(h, s) == IF s = <<>> THEN h ELSE Observe(Observe1(h, Head(s)), Tail(s))

Held(e, es, ls) == (es # Null /\ es[1].executionId = e) \/ (\E s \in BagToSet(ls) : s.eid = e)

\* the popup's execute screen shows execution e
Shown(e, pp) ==
  /\ pp # <<>>
  /\ pp[1].activeExecution # <<>>
  /\ pp[1].activeExecution[1].executionId = e

\* the step sends out and is observed as out followed by obs: to be written
\* after the step's executeState' and loops'
EmitObs(out, obs) ==
  /\ sent' = out
  /\ hist' = [e \in ExecIds |-> IF Held(e, executeState', loops') \/ Shown(e, popup')
                                  THEN Observe(hist, out \o obs)[e] ELSE NoHist]

Emit(out) == EmitObs(out, <<>>)

\* ------------------------------------------------------------------- Init
NoRec == [pc |-> "free", eid |-> 0, idx |-> 0, early |-> FALSE]

\* a content script as it is when its page has loaded
FreshContent == [teachModeActive |-> FALSE, stepIndex |-> 0, pc |-> "get"]

\* a document as it is when it has loaded: no overlay, an empty text control,
\* which is an input in one document and a textarea in another, no action
\* being executed
FreshPage(tag) == [overlay |-> FALSE, control |-> tag, value |-> <<>>, runs |-> EmptyBag]

\* the dock variant as it is when the service worker has started
NoGemini == [context |-> <<>>, runs |-> EmptyBag, started |-> 0]

Init ==
  /\ teachState = Null
  /\ executeState = Null
  /\ stored = [teachState |-> Null, executeState |-> Null]
  /\ started = 0
  /\ loops = EmptyBag
  /\ rec = [r \in RecoverSlots |-> NoRec]
  /\ sent = <<>>
  /\ hist = [e \in ExecIds |-> NoHist]
  /\ content = [FreshContent EXCEPT !.pc = "ready"]
  /\ popup = <<>>
  /\ toBg = <<>>
  /\ toTab = [msgs |-> <<>>, events |-> <<>>]
  /\ clicks = EmptyBag
  /\ issued = 0
  /\ clicked = 0
  /\ lastClick = -1
  /\ page = FreshPage("INPUT")
  /\ gemini = NoGemini

\* ------------------------------------------------------------ teach router
\* a message on its way to the service worker
BgMsg(type, sessionId, stepIndex) ==
  [type |-> type, sessionId |-> sessionId, stepIndex |-> stepIndex]

Receives(type) == toBg # <<>> /\ Head(toBg).type = type

\* chrome.storage.onChanged fires for a key whose value changed
Changed(old, new) == IF new = old THEN <<>> ELSE <<IF new = Null THEN "removed" ELSE "set">>

\* a TEACH_START case that keeps the session in memory only
TEACH_START_NotStored(sessionId) ==
  /\ Receives("TEACH_START")
  /\ Head(toBg).sessionId = sessionId
  /\ toBg' = Tail(toBg)
  /\ teachState' = <<[sessionId |-> sessionId]>>
  /\ toTab' = [toTab EXCEPT !.msgs = Append(@, "TEACH_MODE_ON")]
  /\ lastClick' = -1
  /\ UNCHANGED <<replaySide, stored, content, popup, clicks, issued, clicked>>
  /\ UNCHANGED <<page, gemini>>
  /\ Emit(<<Msg("TEACH_MODE_ON", 0, -1, "")>>)

\* case 'TEACH_START': the session is overwritten without any check, stored,
\* and the active tab is told to start forwarding clicks.
TEACH_START(sessionId) ==
  /\ Receives("TEACH_START")
  /\ Head(toBg).sessionId = sessionId
  /\ toBg' = Tail(toBg)
  /\ teachState' = <<[sessionId |-> sessionId]>>
  /\ stored' = [stored EXCEPT !.teachState = teachState']
  /\ toTab' = [msgs |-> Append(toTab.msgs, "TEACH_MODE_ON"),
               events |-> toTab.events \o Changed(stored.teachState, teachState')]
  /\ lastClick' = -1
  /\ UNCHANGED <<replaySide, content, popup, clicks, issued, clicked>>
  /\ UNCHANGED <<page, gemini>>
  /\ Emit(<<Msg("TEACH_MODE_ON", 0, -1, "")>>)

\* case 'TEACH_STOP'
TEACH_STOP ==
  /\ Receives("TEACH_STOP")
  /\ toBg' = Tail(toBg)
  /\ teachState' = Null
  /\ stored' = [stored EXCEPT !.teachState = Null]
  /\ toTab' = [msgs |-> Append(toTab.msgs, "TEACH_MODE_OFF"),
               events |-> toTab.events \o Changed(stored.teachState, Null)]
  /\ lastClick' = -1
  /\ UNCHANGED <<replaySide, content, popup, clicks, issued, clicked>>
  /\ UNCHANGED <<page, gemini>>
  /\ Emit(<<Msg("TEACH_MODE_OFF", 0, -1, "")>>)

\* ---------------------------------------------------------- handleTeachClick
\* case 'CONTENT_CLICK': handleTeachClick returns at once when teachState is
\* null and otherwise runs to its first await, the screenshot
CONTENT_CLICK ==
  /\ Receives("CONTENT_CLICK")
  /\ toBg' = Tail(toBg)
  /\ clicks' = IF teachState = Null THEN clicks
               ELSE clicks (+) SetToBag({[pc |-> "shot", idx |-> Head(toBg).stepIndex]})
  /\ UNCHANGED <<replaySide, teachState, stored, content, popup, toTab, issued, clicked,
                 lastClick>>
  /\ UNCHANGED <<page, gemini>>
  /\ Emit(<<Msg("ok", 0, Head(toBg).stepIndex, "CONTENT_CLICK")>>)

\* captureVisibleTab threw: console.error, return
TeachShotFail(c) ==
  /\ c.pc = "shot"
  /\ clicks' = clicks (-) SetToBag({c})
  /\ UNCHANGED <<replaySide, teachState, stored, content, popup, toBg, toTab, issued,
                 clicked, lastClick>>
  /\ UNCHANGED <<page, gemini>>
  /\ Emit(<<Msg("log", 0, c.idx, "screenshot failed")>>)

\* a continuation that submits the click whether or not a session is held
TeachShotOkUnchecked(c) ==
  /\ c.pc = "shot"
  /\ clicks' = (clicks (-) SetToBag({c})) (+) SetToBag({[c EXCEPT !.pc = "submit"]})
  /\ UNCHANGED <<replaySide, teachState, stored, content, popup, toBg, toTab, issued,
                 clicked, lastClick>>
  /\ UNCHANGED <<page, gemini>>
  /\ Emit(<<Msg("teach_step", 0, c.idx,
                IF teachState = Null THEN "null" ELSE ToString(teachState[1].sessionId))>>)

\* captureVisibleTab resolved: inside the try, the request body reads
\* teachState.sessionId, a TypeError the catch logs when teachState is null by
\* now; otherwise the submit-step request is issued for the session teachState
\* holds now
TeachShotOk(c) ==
  /\ c.pc = "shot"
  /\ clicks' = (clicks (-) SetToBag({c}))
                 (+) (IF teachState = Null THEN EmptyBag ELSE SetToBag({[c EXCEPT !.pc = "submit"]}))
  /\ UNCHANGED <<replaySide, teachState, stored, content, popup, toBg, toTab, issued,
                 clicked, lastClick>>
  /\ UNCHANGED <<page, gemini>>
  /\ Emit(IF teachState = Null
            THEN <<Msg("log", 0, c.idx, "/teach/step error: TypeError")>>
            ELSE <<Msg("teach_step", 0, c.idx, ToString(teachState[1].sessionId))>>)

\* the submit-step request returned: STEP_CAPTURED to the popup
TeachSubmitOk(c) ==
  /\ c.pc = "submit"
  /\ clicks' = clicks (-) SetToBag({c})
  /\ UNCHANGED <<replaySide, teachState, stored, content, popup, toBg, toTab, issued,
                 clicked, lastClick>>
  /\ UNCHANGED <<page, gemini>>
  /\ Emit(<<Msg("STEP_CAPTURED", 0, c.idx, "")>>)

\* a catch that gives the session up when the submit-step request failed
TeachSubmitFailAborts(c) ==
  /\ c.pc = "submit"
  /\ clicks' = clicks (-) SetToBag({c})
  /\ teachState' = Null
  /\ stored' = [stored EXCEPT !.teachState = Null]
  /\ UNCHANGED <<replaySide, content, popup, toBg, toTab, issued, clicked, lastClick>>
  /\ UNCHANGED <<page, gemini>>
  /\ Emit(<<Msg("log", 0, c.idx, "/teach/step error")>>)

\* the submit-step request threw: console.error
TeachSubmitFail(c) ==
  /\ c.pc = "submit"
  /\ clicks' = clicks (-) SetToBag({c})
  /\ UNCHANGED <<replaySide, teachState, stored, content, popup, toBg, toTab, issued,
                 clicked, lastClick>>
  /\ UNCHANGED <<page, gemini>>
  /\ Emit(<<Msg("log", 0, c.idx, "/teach/step error")>>)

\* the service worker is shut down and started again by the next event: the
\* module's variables are initialised anew, its suspended functions are gone,
\* chrome.storage.session is kept and is not read at startup
BgRestart ==
  /\ teachState' = Null
  /\ executeState' = Null
  /\ loops' = EmptyBag
  /\ rec' = [r \in RecoverSlots |-> NoRec]
  /\ clicks' = EmptyBag
  /\ UNCHANGED <<stored, started, content, popup, toBg, toTab, issued, clicked, lastClick>>
  /\ UNCHANGED <<page, gemini>>
  /\ Emit(<<Msg("startup", 0, -1, "")>>)

\* ------------------------------------------------------- runExecuteLoop head
\* The code from the loop condition to the first await of an iteration:
\* `while (executeState && executeState.running)`, the destructuring of
\* executionId, stepIndex and totalSteps, the completion check, which calls
\* completeExecution and so issues the complete request, and otherwise the
\* status notification before the capture.  es is executeState at that time.
\* The result is the bag of what is left of the invocation: nothing when the
\* loop returns.
Live(es) == es # Null /\ es[1].running

Loop(p, eid, idx, act) == [pc |-> p, eid |-> eid, idx |-> idx, act |-> act]

HeadLoop(es) ==
  IF ~Live(es) THEN EmptyBag
  ELSE IF es[1].stepIndex >= es[1].totalSteps
    THEN SetToBag({Loop("completing", es[1].executionId, es[1].stepIndex, "-")})
    ELSE SetToBag({Loop("capture", es[1].executionId, es[1].stepIndex, "-")})

\* a head that asks for completion one step early
HeadOutCompletesEarly(es) ==
  IF ~Live(es) THEN <<>>
  ELSE IF es[1].stepIndex + 1 >= es[1].totalSteps
    THEN <<Msg("complete_req", es[1].executionId, es[1].stepIndex, "")>>
    ELSE <<Msg("status", es[1].executionId, es[1].stepIndex, "capturing")>>

HeadOut(es) ==
  IF ~Live(es) THEN <<>>
  ELSE IF es[1].stepIndex >= es[1].totalSteps
    THEN <<Msg("complete_req", es[1].executionId, es[1].stepIndex, "")>>
    ELSE <<Msg("status", es[1].executionId, es[1].stepIndex, "capturing")>>

\* the invocation s is replaced by what t holds
Step(s, t) == loops' = (loops (-) SetToBag({s})) (+) t

At(p) == {s \in BagToSet(loops) : s.pc = p}

\* ---------------------------------------------------------- execute router
\* case 'EXECUTE_START': a new session object replaces whatever executeState
\* held, a snapshot is stored, and runExecuteLoop() is called, which runs to
\* its first await inside the handler.
NewSession(eid, total) ==
  [executionId |-> eid, totalSteps |-> total, stepIndex |-> 0,
   running |-> TRUE, awaitingRecovery |-> FALSE]

EXECUTE_START(total) ==
  /\ started < MaxStarts
  /\ started' = started + 1
  /\ executeState' = <<NewSession(started + 1, total)>>
  /\ stored' = [stored EXCEPT !.executeState = executeState']
  /\ loops' = loops (+) HeadLoop(executeState')
  /\ UNCHANGED <<teachSide, teachState, rec>>
  /\ UNCHANGED <<page, gemini>>
  /\ Emit(HeadOut(executeState'))

\* a stop handler that clears running and keeps the session object
EXECUTE_STOP_KeepsSession ==
  /\ executeState' = IF executeState = Null THEN Null
                     ELSE <<[executeState[1] EXCEPT !.running = FALSE]>>
  /\ stored' = [stored EXCEPT !.executeState = Null]
  /\ UNCHANGED <<teachSide, teachState, started, loops, rec>>
  /\ UNCHANGED <<page, gemini>>
  /\ Emit(<<Msg("ok", 0, -1, "EXECUTE_STOP")>>)

\* case 'EXECUTE_STOP': running is cleared on the object, then the only
\* reference to it is dropped, the stored copy is removed and the sender is
\* answered.
EXECUTE_STOP ==
  /\ executeState' = Null
  /\ stored' = [stored EXCEPT !.executeState = Null]
  /\ UNCHANGED <<teachSide, teachState, started, loops, rec>>
  /\ UNCHANGED <<page, gemini>>
  /\ EmitObs(<<Msg("ok", 0, -1, "EXECUTE_STOP")>>,
             (IF executeState # Null
                THEN <<Msg("stopped", executeState[1].executionId, -1, "")>>
                ELSE <<>>)
             \o (IF executeState # Null /\ executeState[1].awaitingRecovery
                   THEN <<Msg("stopped_awaiting", executeState[1].executionId, -1, "")>>
                   ELSE <<>>))

\* ------------------------------------------------------- runExecuteLoop body
\* chrome.tabs.query and captureVisibleTab resolved: the execute-step request
\* is issued with the locals of this iteration.
LoopCaptureOk(s) ==
  /\ s.pc = "capture"
  /\ Step(s, SetToBag({[s EXCEPT !.pc = "infer"]}))
  /\ UNCHANGED <<teachSide, teachState, executeState, stored, started, rec>>
  /\ UNCHANGED <<page, gemini>>
  /\ Emit(<<Msg("execute_step", s.eid, s.idx, "")>>)

\* the capture threw: status to the popup, sleep(2000), continue
LoopCaptureFail(s) ==
  /\ s.pc = "capture"
  /\ Step(s, SetToBag({[s EXCEPT !.pc = "retrySleep"]}))
  /\ UNCHANGED <<teachSide, teachState, executeState, stored, started, rec>>
  /\ UNCHANGED <<page, gemini>>
  /\ Emit(<<Msg("capture_failed", s.eid, s.idx, "log"),
            Msg("status", s.eid, s.idx, "retrying")>>)

\* apiFetch('/execute/step') threw: console.error, sleep(2000), continue
LoopInferFail(s) ==
  /\ s.pc = "infer"
  /\ Step(s, SetToBag({[s EXCEPT !.pc = "retrySleep"]}))
  /\ UNCHANGED <<teachSide, teachState, executeState, stored, started, rec>>
  /\ UNCHANGED <<page, gemini>>
  /\ Emit(<<Msg("infer_failed", s.eid, s.idx, "log")>>)

\* sleep(2000) elapsed; `continue` re-enters the loop head
LoopRetry(s) ==
  /\ s.pc = "retrySleep"
  /\ Step(s, HeadLoop(executeState))
  /\ UNCHANGED <<teachSide, teachState, executeState, stored, started, rec>>
  /\ UNCHANGED <<page, gemini>>
  /\ Emit(HeadOut(executeState))

\* result.recovery_needed: the popup is notified, then awaitingRecovery is
\* set on whatever executeState refers to now (a TypeError that ends this
\* invocation if it is null), then the poll loop sleeps.
LoopInferRecovery(s) ==
  /\ s.pc = "infer"
  /\ IF executeState = Null
       THEN /\ Step(s, EmptyBag)
            /\ UNCHANGED executeState
            /\ UNCHANGED rec
       ELSE /\ executeState' = <<[executeState[1] EXCEPT !.awaitingRecovery = TRUE]>>
            /\ Step(s, SetToBag({[s EXCEPT !.pc = "recoveryWait"]}))
            /\ rec' = [r \in RecoverSlots |->
                         IF rec[r].pc = "free" THEN rec[r] ELSE [rec[r] EXCEPT !.early = TRUE]]
  /\ UNCHANGED <<teachSide, teachState, stored, started>>
  /\ UNCHANGED <<page, gemini>>
  /\ Emit(<<Msg("step_update", s.eid, s.idx, "recovering"),
            Msg("recovery", s.eid, s.idx, "question")>>
          \o IF executeState = Null THEN <<Msg("uncaught", s.eid, s.idx, "TypeError")>> ELSE <<>>)

\* sleep(300) elapsed in `while (executeState && executeState.awaitingRecovery)`
LoopRecoveryPoll(s) ==
  /\ s.pc = "recoveryWait"
  /\ UNCHANGED <<page, gemini>>
  /\ IF executeState # Null /\ executeState[1].awaitingRecovery
       THEN /\ UNCHANGED loops
            /\ UNCHANGED <<teachSide, teachState, executeState, stored, started, rec>>
            /\ Emit(<<>>)
       ELSE /\ Step(s, HeadLoop(executeState))
            /\ UNCHANGED <<teachSide, teachState, executeState, stored, started, rec>>
            /\ Emit(HeadOut(executeState))

\* a result without recovery_needed: step_update, then either the tab query
\* before the dispatch (result.action) or straight to the settle delay
LoopInferAction(s, act) ==
  /\ s.pc = "infer"
  /\ Step(s, SetToBag({[s EXCEPT !.pc = IF act = "-" THEN "settle" ELSE "dispatchQuery",
                                 !.act = act]}))
  /\ UNCHANGED <<teachSide, teachState, executeState, stored, started, rec>>
  /\ UNCHANGED <<page, gemini>>
  /\ Emit(<<Msg("step_update", s.eid, s.idx, "executing")>>)

\* chrome.tabs.query resolved with a tab: EXECUTE_ACTION is sent to it.  The
\* message reaches a content script (delivered) or the send rejects, which
\* the loop catches.
LoopDispatch(s, delivered) ==
  /\ s.pc = "dispatchQuery"
  /\ Step(s, SetToBag({[s EXCEPT !.pc = IF delivered THEN "actionRun" ELSE "settle"]}))
  /\ UNCHANGED <<teachSide, teachState, executeState, stored, started, rec>>
  /\ UNCHANGED <<page, gemini>>
  /\ Emit(<<Msg("EXECUTE_ACTION", s.eid, s.idx, s.act)>>)

\* chrome.tabs.query resolved without an active tab, or threw
LoopDispatchNoTab(s) ==
  /\ s.pc = "dispatchQuery"
  /\ Step(s, SetToBag({[s EXCEPT !.pc = "settle"]}))
  /\ UNCHANGED <<teachSide, teachState, executeState, stored, started, rec>>
  /\ UNCHANGED <<page, gemini>>
  /\ Emit(<<>>)

\* sleep(1200) elapsed: step_done (the message carries the step's intent, here
\* the step's action type), `if (executeState) executeState.stepIndex++`, and
\* the next iteration's head
LoopSettle(s) ==
  /\ s.pc = "settle"
  /\ executeState' = IF executeState = Null THEN Null
                     ELSE <<[executeState[1] EXCEPT !.stepIndex = @ + 1]>>
  /\ Step(s, HeadLoop(executeState'))
  /\ UNCHANGED <<teachSide, teachState, stored, started, rec>>
  /\ UNCHANGED <<page, gemini>>
  /\ Emit(<<Msg("step_done", s.eid, s.idx, s.act)>> \o HeadOut(executeState'))

\* ------------------------------------------------------- completeExecution
\* the complete request returned or threw: Completed to the popup, the
\* session and its stored copy are dropped, and runExecuteLoop returns
completeExecution(s) ==
  /\ s.pc = "completing"
  /\ Step(s, EmptyBag)
  /\ executeState' = Null
  /\ stored' = [stored EXCEPT !.executeState = Null]
  /\ UNCHANGED <<teachSide, teachState, started, rec>>
  /\ UNCHANGED <<page, gemini>>
  /\ Emit(<<Msg("complete", s.eid, -1, "")>>)

\* ---------------------------------------------- content script: dispatcher
\* a switch whose default case falls into the click case
PageEffectDefaultClicks(type) ==
  IF type = "type" THEN "simulateType"
  ELSE IF type = "navigate" THEN "location.href"
  ELSE IF type = "scroll" THEN "performScroll"
  ELSE "simulateClick"

\* executeAction's switch: what it does to the page for each action type
\* ("none": the default case, which only warns)
PageEffect(type) ==
  IF type = "click" THEN "simulateClick"
  ELSE IF type = "type" THEN "simulateType"
  ELSE IF type = "navigate" THEN "location.href"
  ELSE IF type = "scroll" THEN "performScroll"
  ELSE "none"

\* what the EXECUTE_ACTION handler answers once executeAction has resolved
ActionResponse(type) == "ok"

SwitchOut(s) ==
  IF PageEffect(s.act) = "none"
    THEN <<Msg("warn", s.eid, s.idx, s.act)>>
    ELSE <<Msg("page", s.eid, s.idx, PageEffect(s.act))>>

\* the EXECUTE_ACTION handler: executeAction runs its switch, sleeps 800 ms
\* and sends SCREENSHOT_VERIFY to the background, whose handler does nothing;
\* then sendResponse resolves the loop's sendMessage
executeAction(s) ==
  /\ s.pc = "actionRun"
  /\ Step(s, SetToBag({[s EXCEPT !.pc = "settle"]}))
  /\ UNCHANGED <<teachSide, teachState, executeState, stored, started, rec>>
  /\ UNCHANGED <<page, gemini>>
  /\ Emit(SwitchOut(s) \o <<Msg("SCREENSHOT_VERIFY", s.eid, s.idx, ""),
                            Msg("response", s.eid, s.idx, ActionResponse(s.act))>>)

\* a navigation unloads the content script before it answers: the loop's
\* sendMessage rejects and the loop catches it
executeActionUnloaded(s) ==
  /\ s.pc = "actionRun"
  /\ s.act = "navigate"
  /\ Step(s, SetToBag({[s EXCEPT !.pc = "settle"]}))
  /\ UNCHANGED <<teachSide, teachState, executeState, stored, started, rec>>
  /\ UNCHANGED <<page, gemini>>
  /\ Emit(SwitchOut(s))

\* ----------------------------------------------------------- handleRecovery
\* case 'EXECUTE_RECOVER': handleRecovery runs to its first await
FreeSlot == CHOOSE r \in RecoverSlots :
              rec[r].pc = "free" /\ \A q \in RecoverSlots : q < r => rec[q].pc # "free"

EXECUTE_RECOVER(executionId, stepIndex) ==
  /\ \E r \in RecoverSlots : rec[r].pc = "free"
  /\ rec' = [rec EXCEPT ![FreeSlot] = [pc |-> "shot", eid |-> executionId, idx |-> stepIndex,
                                       early |-> FALSE]]
  /\ UNCHANGED <<teachSide, teachState, executeState, stored, started, loops>>
  /\ UNCHANGED <<page, gemini>>
  /\ Emit(<<>>)

\* the screenshot was taken or failed (both are tolerated): the recover
\* request is issued
RecoverRequest(r) ==
  /\ rec[r].pc = "shot"
  /\ rec' = [rec EXCEPT ![r].pc = "call"]
  /\ UNCHANGED <<teachSide, teachState, executeState, stored, started, loops>>
  /\ UNCHANGED <<page, gemini>>
  /\ Emit(<<Msg("recover_req", rec[r].eid, rec[r].idx, "")>>)

\* the recover request returned or threw:
\* `if (executeState) executeState.awaitingRecovery = false`
RecoverReturn(r) ==
  /\ rec[r].pc = "call"
  /\ rec' = [rec EXCEPT ![r] = NoRec]
  /\ executeState' = IF executeState = Null THEN Null
                     ELSE <<[executeState[1] EXCEPT !.awaitingRecovery = FALSE]>>
  /\ UNCHANGED <<teachSide, teachState, stored, started, loops>>
  /\ UNCHANGED <<page, gemini>>
  /\ Emit(<<Msg("recover_done", rec[r].eid, rec[r].idx, "")>>)

\* ------------------------------------------- content script: teach mode
\* the page loads: a new content script is injected, starts with its initial
\* state and asks the session store for teachState; what was on its way to
\* the script of the previous document is lost
PageLoad ==
  /\ content' = FreshContent
  /\ toTab' = [msgs |-> <<>>, events |-> <<>>]
  /\ UNCHANGED <<replaySide, teachState, stored, popup, toBg, clicks, issued, clicked,
                 lastClick>>
  /\ UNCHANGED <<page, gemini>>
  /\ Emit(<<Msg("injected", 0, -1, "")>>)

\* the callback of chrome.storage.session.get(['teachState'])
ContentRecover ==
  /\ content.pc = "get"
  /\ content' = [content EXCEPT !.pc = "ready",
                                !.teachModeActive = @ \/ stored.teachState # Null]
  /\ UNCHANGED <<replaySide, teachState, stored, popup, toBg, toTab, clicks, issued,
                 clicked, lastClick>>
  /\ UNCHANGED <<page, gemini>>
  /\ Emit(<<>>)

\* chrome.storage.onChanged listener, for a change of teachState
onChanged ==
  /\ toTab.events # <<>>
  /\ toTab' = [toTab EXCEPT !.events = Tail(@)]
  /\ content' = IF Head(toTab.events) = "set"
                  THEN [content EXCEPT !.teachModeActive = TRUE, !.stepIndex = 0]
                  ELSE [content EXCEPT !.teachModeActive = FALSE]
  /\ UNCHANGED <<replaySide, teachState, stored, popup, toBg, clicks, issued, clicked,
                 lastClick>>
  /\ UNCHANGED <<page, gemini>>
  /\ Emit(<<>>)

\* case 'TEACH_MODE_ON'
TEACH_MODE_ON ==
  /\ toTab.msgs # <<>>
  /\ Head(toTab.msgs) = "TEACH_MODE_ON"
  /\ toTab' = [toTab EXCEPT !.msgs = Tail(@)]
  /\ content' = [content EXCEPT !.teachModeActive = TRUE, !.stepIndex = 0]
  /\ UNCHANGED <<replaySide, teachState, stored, popup, toBg, clicks, issued, clicked,
                 lastClick>>
  /\ UNCHANGED <<page, gemini>>
  /\ Emit(<<>>)

\* case 'TEACH_MODE_OFF'
TEACH_MODE_OFF ==
  /\ toTab.msgs # <<>>
  /\ Head(toTab.msgs) = "TEACH_MODE_OFF"
  /\ toTab' = [toTab EXCEPT !.msgs = Tail(@)]
  /\ content' = [content EXCEPT !.teachModeActive = FALSE]
  /\ UNCHANGED <<replaySide, teachState, stored, popup, toBg, clicks, issued, clicked,
                 lastClick>>
  /\ UNCHANGED <<page, gemini>>
  /\ Emit(<<>>)

\* the document's click listener: nothing unless teach mode is on; otherwise
\* CONTENT_CLICK is sent with the counter, which is then incremented
Click ==
  /\ clicked < MaxClicks
  /\ clicked' = clicked + 1
  /\ IF content.teachModeActive
       THEN /\ Len(toBg) < MaxInFlight
            /\ toBg' = Append(toBg, BgMsg("CONTENT_CLICK", 0, content.stepIndex))
            /\ content' = [content EXCEPT !.stepIndex = @ + 1]
            /\ lastClick' = content.stepIndex
       ELSE UNCHANGED <<toBg, content, lastClick>>
  /\ UNCHANGED <<replaySide, teachState, stored, popup, toTab, clicks, issued>>
  /\ UNCHANGED <<page, gemini>>
  /\ Emit(IF content.teachModeActive
            THEN <<Msg("CONTENT_CLICK", 0, content.stepIndex, "")>> ELSE <<>>)

\* ---------------------------------------------------- popup: teach screen
\* String.prototype.trim: white space is removed from both ends
RECURSIVE TrimStart(_)
TrimStart(str) == IF str # <<>> /\ Head(str) = " " THEN TrimStart(Tail(str)) ELSE str

RECURSIVE TrimEnd(_)
TrimEnd(str) ==
  IF str # <<>> /\ str[Len(str)] = " " THEN TrimEnd(SubSeq(str, 1, Len(str) - 1)) ELSE str

\* a trim that removes nothing
trimNothing(str) == str

trim(str) == TrimEnd(TrimStart(str))

\* the popup's globals when its script has loaded; teachSessionId 0 is null
NewPopup ==
  [view |-> "dashboard", nameInput |-> <<>>, teachSessionId |-> 0, isRecording |-> FALSE,
   starting |-> 0, finishing |-> 0, activeExecution |-> <<>>, startingExec |-> <<>>]

\* a restore that shows the recording screen without taking up the session
restoreTeachSessionIdle(p, ts) == [p EXCEPT !.view = "recording"]

restoreTeachSession(p, ts) ==
  [p EXCEPT !.isRecording = TRUE, !.teachSessionId = ts.sessionId, !.view = "recording"]

\* the popup is opened: its DOMContentLoaded handler reads teachState from the
\* session store and restores the session or shows the dashboard
DOMContentLoaded ==
  /\ popup = <<>>
  /\ popup' = IF stored.teachState # Null
                THEN <<restoreTeachSession(NewPopup, stored.teachState[1])>>
                ELSE <<NewPopup>>
  /\ UNCHANGED <<replaySide, teachState, stored, content, toBg, toTab, clicks, issued,
                 clicked, lastClick>>
  /\ UNCHANGED <<page, gemini>>
  /\ Emit(IF stored.teachState # Null
            THEN <<Msg("showScreen", 0, -1, "teach")>>
            ELSE <<Msg("showScreen", 0, -1, "dashboard"), Msg("workflows_req", 0, -1, "")>>)

\* the popup window is closed, by the user or by window.close(): its script
\* and its requests in flight are gone
PopupClose ==
  /\ popup # <<>>
  /\ popup' = <<>>
  /\ UNCHANGED <<replaySide, teachState, stored, content, toBg, toTab, clicks, issued,
                 clicked, lastClick>>
  /\ UNCHANGED <<page, gemini>>
  /\ Emit(<<>>)

\* btn-teach-new: resetTeachScreen and the teach screen with its setup part
resetTeachScreen ==
  /\ popup # <<>>
  /\ popup[1].view = "dashboard"
  /\ popup' = <<[popup[1] EXCEPT !.view = "setup", !.nameInput = <<>>, !.teachSessionId = 0]>>
  /\ UNCHANGED <<replaySide, teachState, stored, content, toBg, toTab, clicks, issued,
                 clicked, lastClick>>
  /\ UNCHANGED <<page, gemini>>
  /\ Emit(<<>>)

\* the user types into workflow-name-input
TypeName(name) ==
  /\ popup # <<>>
  /\ popup[1].view = "setup"
  /\ popup[1].nameInput # name
  /\ popup' = <<[popup[1] EXCEPT !.nameInput = name]>>
  /\ UNCHANGED <<replaySide, teachState, stored, content, toBg, toTab, clicks, issued,
                 clicked, lastClick>>
  /\ UNCHANGED <<page, gemini>>
  /\ Emit(<<>>)

\* btn-start-recording: startRecording up to its first await.  An empty
\* trimmed name puts the focus on the field and returns; otherwise the
\* start-teach request is issued.
startRecording ==
  /\ popup # <<>>
  /\ popup[1].view = "setup"
  /\ UNCHANGED <<replaySide, teachState, stored, content, toBg, toTab, clicks, issued,
                 clicked, lastClick>>
  /\ UNCHANGED <<page, gemini>>
  /\ IF trim(popup[1].nameInput) = <<>>
       THEN /\ UNCHANGED popup
            /\ Emit(<<Msg("focus", 0, -1, "workflow-name-input")>>)
       ELSE /\ issued + popup[1].starting < MaxTeachIds
            /\ popup' = <<[popup[1] EXCEPT !.starting = @ + 1]>>
            /\ Emit(<<Msg("start_req", 0, -1, "")>>)

\* the start-teach request returned a session id: the popup records, shows
\* the recording part and sends TEACH_START
StartResponse ==
  /\ popup # <<>>
  /\ popup[1].starting > 0
  /\ Len(toBg) < MaxInFlight
  /\ issued' = issued + 1
  /\ popup' = <<[popup[1] EXCEPT !.starting = @ - 1, !.teachSessionId = issued + 1,
                                 !.isRecording = TRUE, !.view = "recording"]>>
  /\ toBg' = Append(toBg, BgMsg("TEACH_START", issued + 1, -1))
  /\ UNCHANGED <<replaySide, teachState, stored, content, toTab, clicks, clicked, lastClick>>
  /\ UNCHANGED <<page, gemini>>
  /\ Emit(<<Msg("TEACH_START", 0, -1, ToString(issued + 1))>>)

\* the start-teach request threw: a status line, nothing else
StartFailed ==
  /\ popup # <<>>
  /\ popup[1].starting > 0
  /\ popup' = <<[popup[1] EXCEPT !.starting = @ - 1]>>
  /\ UNCHANGED <<replaySide, teachState, stored, content, toBg, toTab, clicks, issued,
                 clicked, lastClick>>
  /\ UNCHANGED <<page, gemini>>
  /\ Emit(<<Msg("teach_status", 0, -1, "Could not start session")>>)

\* a stopRecording that saves whatever its argument
stopRecordingAlwaysSaves(save) ==
  /\ popup # <<>>
  /\ popup[1].view # "dashboard"
  /\ UNCHANGED <<replaySide, teachState, stored, content, toTab, clicks, issued, clicked,
                 lastClick>>
  /\ UNCHANGED <<page, gemini>>
  /\ LET p == popup[1]
         finish == p.isRecording /\ p.teachSessionId # 0
     IN  /\ p.isRecording => Len(toBg) < MaxInFlight
         /\ popup' = <<[p EXCEPT !.isRecording = FALSE,
                                 !.finishing = IF finish THEN @ + 1 ELSE @,
                                 !.view = IF save THEN @ ELSE "dashboard"]>>
         /\ toBg' = IF p.isRecording THEN Append(toBg, BgMsg("TEACH_STOP", 0, -1)) ELSE toBg
         /\ Emit((IF p.isRecording THEN <<Msg("TEACH_STOP", 0, -1, "")>> ELSE <<>>)
                 \o (IF finish THEN <<Msg("finish_req", 0, -1, ToString(p.teachSessionId))>>
                     ELSE <<>>))

\* a stopRecording without its isRecording guard
stopRecordingUnguarded(save) ==
  /\ popup # <<>>
  /\ popup[1].view # "dashboard"
  /\ UNCHANGED <<replaySide, teachState, stored, content, toTab, clicks, issued, clicked,
                 lastClick>>
  /\ UNCHANGED <<page, gemini>>
  /\ LET p == popup[1]
         finish == save /\ p.teachSessionId # 0
     IN  /\ Len(toBg) < MaxInFlight
         /\ popup' = <<[p EXCEPT !.isRecording = FALSE,
                                 !.finishing = IF finish THEN @ + 1 ELSE @,
                                 !.view = IF save THEN @ ELSE "dashboard"]>>
         /\ toBg' = Append(toBg, BgMsg("TEACH_STOP", 0, -1))
         /\ Emit(<<Msg("TEACH_STOP", 0, -1, "")>>
                 \o (IF finish THEN <<Msg("finish_req", 0, -1, ToString(p.teachSessionId))>>
                     ELSE <<>>))

\* btn-stop-save (save), btn-teach-cancel and btn-teach-back (no save, then
\* the dashboard): stopRecording up to its first await.  Nothing unless the
\* popup is recording; otherwise TEACH_STOP is sent and, to save a session
\* that has an id, the finish-teach request is issued.
stopRecording(save) ==
  /\ popup # <<>>
  /\ popup[1].view # "dashboard"
  /\ UNCHANGED <<replaySide, teachState, stored, content, toTab, clicks, issued, clicked,
                 lastClick>>
  /\ UNCHANGED <<page, gemini>>
  /\ LET p == popup[1]
         finish == p.isRecording /\ save /\ p.teachSessionId # 0
     IN  /\ p.isRecording => Len(toBg) < MaxInFlight
         /\ popup' = <<[p EXCEPT !.isRecording = FALSE,
                                 !.finishing = IF finish THEN @ + 1 ELSE @,
                                 !.view = IF save THEN @ ELSE "dashboard"]>>
         /\ toBg' = IF p.isRecording THEN Append(toBg, BgMsg("TEACH_STOP", 0, -1)) ELSE toBg
         /\ Emit((IF p.isRecording THEN <<Msg("TEACH_STOP", 0, -1, "")>> ELSE <<>>)
                 \o (IF finish THEN <<Msg("finish_req", 0, -1, ToString(p.teachSessionId))>>
                     ELSE <<>>))

\* the finish-teach request returned or threw: a status line, and after a
\* success the dashboard
FinishResponse(ok) ==
  /\ popup # <<>>
  /\ popup[1].finishing > 0
  /\ popup' = <<[popup[1] EXCEPT !.finishing = @ - 1,
                                 !.view = IF ok THEN "dashboard" ELSE @]>>
  /\ UNCHANGED <<replaySide, teachState, stored, content, toBg, toTab, clicks, issued,
                 clicked, lastClick>>
  /\ UNCHANGED <<page, gemini>>
  /\ Emit(<<Msg("teach_status", 0, -1, IF ok THEN "Saved" ELSE "Error saving workflow")>>)

\* -------------------------------------------------- popup: execute screen
\* a workflow of the dashboard's list: its step_count and the length of its
\* steps, each of which the backend's answer may leave out
Absent == -1
Workflows == [step_count : StepIdx \cup {Absent}, steps : StepIdx \cup {Absent}]

\* a totalSteps that asks the steps array first
totalStepsFromSteps(workflow) ==
  IF workflow.steps # Absent THEN workflow.steps
  ELSE IF workflow.step_count # Absent THEN workflow.step_count
  ELSE 0

\* `workflow.step_count ?? workflow.steps?.length ?? 0`
totalSteps(workflow) ==
  IF workflow.step_count # Absent THEN workflow.step_count
  ELSE IF workflow.steps # Absent THEN workflow.steps
  ELSE 0

\* a message of the execute screen on its way to the service worker;
\* executionId 0 is undefined
ExecMsg(type, executionId, total) ==
  [type |-> type, executionId |-> executionId, totalSteps |-> total]

Without(s, n) == SubSeq(s, 1, n - 1) \o SubSeq(s, n + 1, Len(s))

\* a Run button of the dashboard: startExecution, called with a workflow that
\* has this step_count, up to its first await, the start-execution request
startExecution(workflow) ==
  /\ popup # <<>>
  /\ popup[1].view = "dashboard"
  /\ started + Len(popup[1].startingExec) < MaxStarts
  /\ popup' = <<[popup[1] EXCEPT !.view = "execute",
                                 !.startingExec = Append(@, totalSteps(workflow))]>>
  /\ UNCHANGED <<replaySide, teachState, stored, content, toBg, toTab, clicks, issued,
                 clicked, lastClick>>
  /\ UNCHANGED <<page, gemini>>
  /\ Emit(<<Msg("startExecution", 0, workflow.step_count, ""),
            Msg("showScreen", 0, -1, "execute"), Msg("start_exec_req", 0, -1, "")>>)

\* the start-execution request of the n-th suspended startExecution was
\* answered with a JSON body, with or without an execution_id (fetch resolves
\* for an error status too): activeExecution is set and EXECUTE_START is sent
\* with data.execution_id, whatever it is
StartExecutionResponse(n, hasId) ==
  /\ popup # <<>>
  /\ n \in 1..Len(popup[1].startingExec)
  /\ Len(toBg) < MaxInFlight
  /\ started' = started + 1
  /\ UNCHANGED <<page, gemini>>
  /\ LET id == IF hasId THEN started + 1 ELSE 0
         total == popup[1].startingExec[n]
     IN  /\ popup' = <<[popup[1] EXCEPT
                          !.activeExecution = <<[executionId |-> id, totalSteps |-> total]>>,
                          !.startingExec = Without(@, n)]>>
         /\ toBg' = Append(toBg, ExecMsg("EXECUTE_START", id, total))
         /\ UNCHANGED <<teachState, executeState, stored, loops, rec, content, toTab, clicks,
                        issued, clicked, lastClick>>
         /\ Emit(<<Msg("EXECUTE_START", id, -1, ToString(total))>>)

\* the request threw (the backend is unreachable or its answer is not JSON):
\* a status line, nothing else
StartExecutionFailed(n) ==
  /\ popup # <<>>
  /\ n \in 1..Len(popup[1].startingExec)
  /\ popup' = <<[popup[1] EXCEPT !.startingExec = Without(@, n)]>>
  /\ UNCHANGED <<replaySide, teachState, stored, content, toBg, toTab, clicks, issued,
                 clicked, lastClick>>
  /\ UNCHANGED <<page, gemini>>
  /\ Emit(<<Msg("execute_status", 0, -1, "Failed to start execution")>>)

\* btn-execute-back and btn-execute-stop: stopExecution, then the dashboard.
\* With an activeExecution EXECUTE_STOP is sent and, if it has an execution
\* id, the complete request is issued.
stopExecution ==
  /\ popup # <<>>
  /\ popup[1].view = "execute"
  /\ popup' = <<[popup[1] EXCEPT !.activeExecution = <<>>, !.view = "dashboard"]>>
  /\ UNCHANGED <<replaySide, teachState, stored, content, toTab, clicks, issued, clicked,
                 lastClick>>
  /\ UNCHANGED <<page, gemini>>
  /\ IF popup[1].activeExecution = <<>>
       THEN /\ UNCHANGED toBg
            /\ Emit(<<>>)
       ELSE LET id == popup[1].activeExecution[1].executionId
            IN  /\ Len(toBg) < MaxInFlight
                /\ toBg' = Append(toBg, ExecMsg("EXECUTE_STOP", id, 0))
                /\ Emit(<<Msg("EXECUTE_STOP", id, -1, "")>>
                        \o (IF id # 0 THEN <<Msg("complete_req", id, -1, "stopExecution")>>
                            ELSE <<>>))

\* case 'EXECUTE_START', for the message the popup sent
EXECUTE_START_Received ==
  /\ Receives("EXECUTE_START")
  /\ toBg' = Tail(toBg)
  /\ executeState' = <<NewSession(Head(toBg).executionId, Head(toBg).totalSteps)>>
  /\ stored' = [stored EXCEPT !.executeState = executeState']
  /\ loops' = loops (+) HeadLoop(executeState')
  /\ UNCHANGED <<teachState, started, rec, content, popup, toTab, clicks, issued, clicked,
                 lastClick>>
  /\ UNCHANGED <<page, gemini>>
  /\ Emit(<<Msg("ok", Head(toBg).executionId, -1, "EXECUTE_START")>> \o HeadOut(executeState'))

\* case 'EXECUTE_STOP', for the message the popup sent
EXECUTE_STOP_Received ==
  /\ Receives("EXECUTE_STOP")
  /\ toBg' = Tail(toBg)
  /\ executeState' = Null
  /\ stored' = [stored EXCEPT !.executeState = Null]
  /\ UNCHANGED <<teachState, started, loops, rec, content, popup, toTab, clicks, issued,
                 clicked, lastClick>>
  /\ UNCHANGED <<page, gemini>>
  /\ EmitObs(<<Msg("ok", 0, -1, "EXECUTE_STOP")>>,
             IF executeState # Null
               THEN <<Msg("stopped", executeState[1].executionId, -1, "")>> ELSE <<>>)

\* ------------------------------------------------------------------- Next
\* the replay side of the service worker: the execute cases of the router,
\* the continuations of runExecuteLoop and completeExecution, the content
\* script's dispatcher and the continuations of handleRecovery
Next ==
  \/ \E total \in StepIdx : EXECUTE_START(total)
  \/ EXECUTE_STOP
  \/ \E e \in ExecIds, i \in StepIdx : EXECUTE_RECOVER(e, i)
  \/ \E s \in BagToSet(loops) : LoopCaptureOk(s)
  \/ \E s \in BagToSet(loops) : LoopCaptureFail(s)
  \/ \E s \in BagToSet(loops) : LoopInferFail(s)
  \/ \E s \in BagToSet(loops) : LoopRetry(s)
  \/ \E s \in BagToSet(loops) : LoopInferRecovery(s)
  \/ \E s \in BagToSet(loops) : LoopRecoveryPoll(s)
  \/ \E s \in BagToSet(loops), act \in ActionTypes \cup {"-"} : LoopInferAction(s, act)
  \/ \E s \in BagToSet(loops), delivered \in BOOLEAN : LoopDispatch(s, delivered)
  \/ \E s \in BagToSet(loops) : LoopDispatchNoTab(s)
  \/ \E s \in BagToSet(loops) : LoopSettle(s)
  \/ \E s \in BagToSet(loops) : completeExecution(s)
  \/ \E s \in BagToSet(loops) : executeAction(s)
  \/ \E s \in BagToSet(loops) : executeActionUnloaded(s)
  \/ \E r \in RecoverSlots : RecoverRequest(r)
  \/ \E r \in RecoverSlots : RecoverReturn(r)

Spec == Init /\ [][Next]_vars

\* the teach side: the popup's teach screen, the teach cases of the router and
\* handleTeachClick in the service worker, the content script's teach mode,
\* and restarts of the service worker
NextTeach ==
  \/ DOMContentLoaded
  \/ PopupClose
  \/ resetTeachScreen
  \/ \E name \in Names : TypeName(name)
  \/ startRecording
  \/ StartResponse
  \/ StartFailed
  \/ \E save \in BOOLEAN : stopRecording(save)
  \/ \E ok \in BOOLEAN : FinishResponse(ok)
  \/ \E sid \in TeachIds : TEACH_START(sid)
  \/ TEACH_STOP
  \/ CONTENT_CLICK
  \/ \E c \in BagToSet(clicks) : TeachShotFail(c)
  \/ \E c \in BagToSet(clicks) : TeachShotOk(c)
  \/ \E c \in BagToSet(clicks) : TeachSubmitOk(c)
  \/ \E c \in BagToSet(clicks) : TeachSubmitFail(c)
  \/ BgRestart
  \/ PageLoad
  \/ ContentRecover
  \/ onChanged
  \/ TEACH_MODE_ON
  \/ TEACH_MODE_OFF
  \/ Click

SpecTeach == Init /\ [][NextTeach]_vars

\* the replay side when no stop is issued
NextLive ==
  \/ \E total \in StepIdx : EXECUTE_START(total)
  \/ \E e \in ExecIds, i \in StepIdx : EXECUTE_RECOVER(e, i)
  \/ \E s \in BagToSet(loops) : LoopCaptureOk(s)
  \/ \E s \in BagToSet(loops) : LoopCaptureFail(s)
  \/ \E s \in BagToSet(loops) : LoopInferFail(s)
  \/ \E s \in BagToSet(loops) : LoopRetry(s)
  \/ \E s \in BagToSet(loops) : LoopInferRecovery(s)
  \/ \E s \in BagToSet(loops) : LoopRecoveryPoll(s)
  \/ \E s \in BagToSet(loops), act \in ActionTypes \cup {"-"} : LoopInferAction(s, act)
  \/ \E s \in BagToSet(loops), delivered \in BOOLEAN : LoopDispatch(s, delivered)
  \/ \E s \in BagToSet(loops) : LoopDispatchNoTab(s)
  \/ \E s \in BagToSet(loops) : LoopSettle(s)
  \/ \E s \in BagToSet(loops) : completeExecution(s)
  \/ \E s \in BagToSet(loops) : executeAction(s)
  \/ \E s \in BagToSet(loops) : executeActionUnloaded(s)
  \/ \E r \in RecoverSlots : RecoverRequest(r)
  \/ \E r \in RecoverSlots : RecoverReturn(r)

\* the user answers the recovery question of the session that waits for it
AnswerRecovery ==
  /\ executeState # Null
  /\ executeState[1].awaitingRecovery
  /\ EXECUTE_RECOVER(executeState[1].executionId, executeState[1].stepIndex)

\* Timers fire and pending calls return (weak fairness on every
\* continuation); a capture and an execute-step call that are tried again
\* and again eventually succeed, with a result that needs no recovery
\* (strong fairness on the successful outcomes); and a session that waits for
\* a recovery eventually gets its answer.
Fairness ==
  /\ WF_vars(\E s \in BagToSet(loops) : LoopRetry(s))
  /\ WF_vars(\E s \in BagToSet(loops) : LoopRecoveryPoll(s))
  /\ WF_vars(\E s \in BagToSet(loops) : LoopSettle(s))
  /\ WF_vars(\E s \in BagToSet(loops) : completeExecution(s))
  /\ WF_vars(\E s \in BagToSet(loops) : executeAction(s))
  /\ WF_vars(\E s \in BagToSet(loops) : LoopDispatchNoTab(s) \/ LoopDispatch(s, TRUE))
  /\ SF_vars(\E s \in BagToSet(loops) : LoopCaptureOk(s))
  /\ SF_vars(\E s \in BagToSet(loops), act \in ActionTypes \cup {"-"} : LoopInferAction(s, act))
  /\ WF_vars(\E r \in RecoverSlots : RecoverRequest(r))
  /\ WF_vars(\E r \in RecoverSlots : RecoverReturn(r))
  /\ WF_vars(AnswerRecovery)

SpecLive == Init /\ [][NextLive]_vars /\ Fairness

\* the popup's execute screen with the replay side of the service worker:
\* executions are started and stopped by the popup's messages, and the
\* backend's answers to execute-step never ask for a recovery
NextRun ==
  \/ DOMContentLoaded
  \/ PopupClose
  \/ \E workflow \in Workflows : startExecution(workflow)
  \/ \E n \in 1..MaxStarts, hasId \in BOOLEAN : StartExecutionResponse(n, hasId)
  \/ \E n \in 1..MaxStarts : StartExecutionFailed(n)
  \/ stopExecution
  \/ EXECUTE_START_Received
  \/ EXECUTE_STOP_Received
  \/ \E s \in BagToSet(loops) : LoopCaptureOk(s)
  \/ \E s \in BagToSet(loops) : LoopCaptureFail(s)
  \/ \E s \in BagToSet(loops) : LoopInferFail(s)
  \/ \E s \in BagToSet(loops) : LoopRetry(s)
  \/ \E s \in BagToSet(loops), act \in ActionTypes \cup {"-"} : LoopInferAction(s, act)
  \/ \E s \in BagToSet(loops), delivered \in BOOLEAN : LoopDispatch(s, delivered)
  \/ \E s \in BagToSet(loops) : LoopDispatchNoTab(s)
  \/ \E s \in BagToSet(loops) : LoopSettle(s)
  \/ \E s \in BagToSet(loops) : completeExecution(s)
  \/ \E s \in BagToSet(loops) : executeAction(s)
  \/ \E s \in BagToSet(loops) : executeActionUnloaded(s)

SpecRun == Init /\ [][NextRun]_vars

\* ------------------------------------------ content script: action executors
\* The EXECUTE_ACTION handler of the content script starts executeAction for
\* every message it receives, whether or not an earlier one has resolved
\* (content.js:95-99).  simulateClick and performScroll run to their end in
\* the handler's own step; simulateType sleeps 30 ms after every character
\* and executeAction sleeps 800 ms before it answers, so other steps come
\* between.

\* a JSON value of an action command: a string is its sequence of characters
JsUndefined == [t |-> "undefined", s |-> <<>>, n |-> 0]
JsString(s) == [t |-> "string", s |-> s, n |-> 0]
JsNumber(n) == [t |-> "number", s |-> <<>>, n |-> n]

TextChars == {"a", "b"}
Texts == UNION {[1..n -> TextChars] : n \in 0..MaxTextLen}

\* the characters of a scroll value: two digits, a sign and a letter
ScrollChars == {"0", "3", "-", "x"}
ScrollStrings == UNION {[1..n -> ScrollChars] : n \in 0..MaxValueLen}
ScrollValues == {JsUndefined} \cup {JsString(s) : s \in ScrollStrings}
                  \cup {JsNumber(n) : n \in {0, 120}}
Directions == {"down", "up", "right", "left", "diagonal"}

\* normalized coordinates are multiples of a quarter: q stands for q / 4
Quarters == -1..5

\* window.innerWidth and window.innerHeight of the page
Viewport == [innerWidth |-> 3, innerHeight |-> 2]

\* Math.round(a / b) for b > 0: the nearest integer, a half goes up
Round(a, b) == (2 * a + b) \div (2 * b)

\* the elements of the page: a text control, a link, a button, the root, and
\* an overlay the page puts over the whole viewport from time to time
ControlTags == {"INPUT", "TEXTAREA"}
Boxes == {"field", "link", "button"}

tagName(pg, el) ==
  CASE el = "field" -> pg.control
    [] el = "link" -> "A"
    [] el = "button" -> "BUTTON"
    [] el = "overlay" -> "DIV"
    [] OTHER -> "HTML"

getBoundingClientRect(el) ==
  CASE el = "field" -> [left |-> 0, top |-> 0, width |-> 1, height |-> 2]
    [] el = "link" -> [left |-> 1, top |-> 0, width |-> 1, height |-> 2]
    [] el = "button" -> [left |-> 2, top |-> 0, width |-> 1, height |-> 2]
    [] OTHER -> [left |-> 0, top |-> 0, width |-> Viewport.innerWidth,
                 height |-> Viewport.innerHeight]

\* document.elementFromPoint: the topmost element at a viewport point, null
\* for a point outside the viewport
elementFromPoint(pg, x, y) ==
  IF x < 0 \/ y < 0 \/ x > Viewport.innerWidth \/ y > Viewport.innerHeight THEN "null"
  ELSE IF pg.overlay THEN "overlay"
  ELSE IF \E el \in Boxes :
            LET r == getBoundingClientRect(el)
            IN  /\ r.left <= x /\ x < r.left + r.width
                /\ r.top <= y /\ y < r.top + r.height
    THEN CHOOSE el \in Boxes :
            LET r == getBoundingClientRect(el)
            IN  /\ r.left <= x /\ x < r.left + r.width
                /\ r.top <= y /\ y < r.top + r.height
  ELSE "html"

\* the point (nx, ny) in pixels (content.js:157-158, 179-180)
PixelX(nx) == Round(nx * Viewport.innerWidth, 4)
PixelY(ny) == Round(ny * Viewport.innerHeight, 4)

\* an event dispatched on an element; positions are in half pixels, because
\* the centre of a box of odd width lies between two pixels
DomEvent(type, el, x2, y2, key) ==
  [k |-> type, target |-> el, clientX2 |-> x2, clientY2 |-> y2, key |-> key]

MouseTypes == <<"mouseover", "mouseenter", "mousedown", "mouseup", "click">>

\* a simulateClick that positions its events at the requested point
simulateClickAtPoint(pg, nx, ny) ==
  LET el == elementFromPoint(pg, PixelX(nx), PixelY(ny))
  IN  IF el = "null" THEN <<>>
      ELSE [i \in 1..5 |-> DomEvent(MouseTypes[i], el, 2 * PixelX(nx), 2 * PixelY(ny), "")]

\* simulateClick: the events it dispatches, in order
simulateClick(pg, nx, ny) ==
  LET el == elementFromPoint(pg, PixelX(nx), PixelY(ny))
      rect == getBoundingClientRect(el)
  IN  IF el = "null" THEN <<>>
      ELSE [i \in 1..5 |-> DomEvent(MouseTypes[i], el, 2 * rect.left + rect.width,
                                    2 * rect.top + rect.height, "")]

\* parseInt(value, 10): [nan, n].  A string is read as an optional sign and
\* its leading digits, whatever follows them; without a leading digit the
\* result is NaN.  A whole number is first written out in digits, which
\* parseInt reads back; undefined is written "undefined".
IsDigit(c) == c \in {"0", "3"}
DigitValue(c) == IF c = "3" THEN 3 ELSE 0

RECURSIVE LeadingDigits(_)
LeadingDigits(s) ==
  IF s = <<>> \/ ~IsDigit(Head(s)) THEN <<>> ELSE <<Head(s)>> \o LeadingDigits(Tail(s))

RECURSIVE DigitsValue(_)
DigitsValue(ds) ==
  IF ds = <<>> THEN 0
  ELSE 10 * DigitsValue(SubSeq(ds, 1, Len(ds) - 1)) + DigitValue(ds[Len(ds)])

parseInt(value) ==
  IF value.t = "number" THEN [nan |-> FALSE, n |-> value.n]
  ELSE IF value.t = "undefined" THEN [nan |-> TRUE, n |-> 0]
  ELSE LET neg == value.s # <<>> /\ Head(value.s) = "-"
           ds == LeadingDigits(IF neg THEN Tail(value.s) ELSE value.s)
       IN  IF ds = <<>> THEN [nan |-> TRUE, n |-> 0]
           ELSE [nan |-> FALSE, n |-> IF neg THEN 0 - DigitsValue(ds) ELSE DigitsValue(ds)]

\* `parseInt(value, 10) || 300`: NaN and 0 are falsy
ScrollAmount(value) ==
  LET p == parseInt(value) IN IF p.nan \/ p.n = 0 THEN 300 ELSE p.n

\* performScroll: the window.scrollBy call it makes
performScroll(direction, value) ==
  LET amount == ScrollAmount(value)
  IN  CASE direction = "down" -> [k |-> "scrollBy", top |-> amount, left |-> 0]
        [] direction = "up" -> [k |-> "scrollBy", top |-> 0 - amount, left |-> 0]
        [] direction = "right" -> [k |-> "scrollBy", top |-> 0, left |-> amount]
        [] direction = "left" -> [k |-> "scrollBy", top |-> 0, left |-> 0 - amount]
        [] OTHER -> [k |-> "scrollBy", top |-> amount, left |-> 0]

\* the action commands the backend may send
Command(type, x, y, value, dir) ==
  [type |-> type, x |-> x, y |-> y, value |-> value, scroll_direction |-> dir]

Commands ==
  {Command("click", x, y, JsUndefined, "") : x \in Quarters, y \in {1, 3, 5}}
    \cup {Command("type", x, 1, v, "") :
            x \in Quarters, v \in {JsUndefined} \cup {JsString(s) : s \in Texts}}
    \cup {Command("scroll", 0, 0, v, d) : v \in ScrollValues, d \in Directions}
    \cup {Command("navigate", 0, 0, JsString(<<"a">>), ""),
          Command("drag", 0, 0, JsUndefined, "")}

\* an invocation of executeAction that has not resolved: suspended in
\* simulateType after i characters of text typed into el, or in its own sleep
Run(pc, el, text, i) == [pc |-> pc, el |-> el, text |-> text, i |-> i]
Idle == Run("settle", "null", <<>>, 0)

Received(action) == [k |-> "EXECUTE_ACTION", action |-> action]

IsControl(pg, el) == tagName(pg, el) = "INPUT" \/ tagName(pg, el) = "TEXTAREA"

\* one turn of simulateType's loop for the character char
KeyEvents(pg, el, char) ==
  <<DomEvent("keydown", el, 0, 0, char), DomEvent("keypress", el, 0, 0, char)>>
    \o (IF IsControl(pg, el) THEN <<DomEvent("input", el, 0, 0, char)>> ELSE <<>>)
    \o <<DomEvent("keyup", el, 0, 0, char)>>

\* `el.value += char` and `el.value = ''` for a text control
Appended(pg, el, char) == IF IsControl(pg, el) THEN Append(pg.value, char) ELSE pg.value

Cleared(pg, el) == IF IsControl(pg, el) THEN [pg EXCEPT !.value = <<>>] ELSE pg

\* simulateType up to its first sleep, or to its end when there is nothing to
\* type: what it dispatches, what it leaves of the page, and where it stops
simulateType(pg, nx, ny, text) ==
  LET el == elementFromPoint(pg, PixelX(nx), PixelY(ny))
  IN  IF el = "null" THEN [out |-> <<>>, page |-> pg, run |-> Idle]
      ELSE IF text = <<>>
        THEN [out |-> <<DomEvent("focus", el, 0, 0, ""), DomEvent("change", el, 0, 0, "")>>,
              page |-> Cleared(pg, el),
              run |-> Idle]
        ELSE [out |-> <<DomEvent("focus", el, 0, 0, "")>> \o KeyEvents(pg, el, text[1]),
              page |-> [pg EXCEPT !.value = Appended(Cleared(pg, el), el, text[1])],
              run |-> Run("typing", el, text, 1)]

PageUnchangedElsewhere ==
  UNCHANGED <<teachState, executeState, stored, started, loops, rec, hist, content,
              popup, toBg, toTab, clicks, issued, clicked, lastClick, gemini>>

\* case 'EXECUTE_ACTION': executeAction runs its switch up to the first await
onExecuteAction(action) ==
  /\ BagCardinality(page.runs) < MaxActions
  /\ PageUnchangedElsewhere
  /\ CASE action.type = "click" ->
            /\ page' = [page EXCEPT !.runs = @ (+) SetToBag({Idle})]
            /\ sent' = <<Received(action)>> \o simulateClick(page, action.x, action.y)
       [] action.type = "type" ->
            LET text == IF action.value.t = "undefined" THEN <<>> ELSE action.value.s
                res == simulateType(page, action.x, action.y, text)
            IN  /\ page' = [res.page EXCEPT !.runs = @ (+) SetToBag({res.run})]
                /\ sent' = <<Received(action)>> \o res.out
       [] action.type = "navigate" ->
            /\ page' = [page EXCEPT !.runs = @ (+) SetToBag({Idle})]
            /\ sent' = <<Received(action), [k |-> "location.href"]>>
       [] action.type = "scroll" ->
            /\ page' = [page EXCEPT !.runs = @ (+) SetToBag({Idle})]
            /\ sent' = <<Received(action),
                         performScroll(action.scroll_direction, action.value)>>
       [] OTHER ->
            /\ page' = [page EXCEPT !.runs = @ (+) SetToBag({Idle})]
            /\ sent' = <<Received(action), [k |-> "warn"]>>

\* simulateType after a sleep of 30 ms: the next character, or the change
\* event when the text is typed, after which executeAction goes to its sleep
simulateTypeNext(r) ==
  /\ r.pc = "typing"
  /\ PageUnchangedElsewhere
  /\ IF r.i < Len(r.text)
       THEN /\ page' = [page EXCEPT
                          !.value = Appended(page, r.el, r.text[r.i + 1]),
                          !.runs = (@ (-) SetToBag({r}))
                                     (+) SetToBag({[r EXCEPT !.i = r.i + 1]})]
            /\ sent' = KeyEvents(page, r.el, r.text[r.i + 1])
       ELSE /\ page' = [page EXCEPT
                          !.runs = (@ (-) SetToBag({r}))
                                     (+) SetToBag({Idle})]
            /\ sent' = <<DomEvent("change", r.el, 0, 0, "")>>

\* executeAction after its sleep of 800 ms: SCREENSHOT_VERIFY to the service
\* worker, and the handler answers
ActionResolved(r) ==
  /\ r.pc = "settle"
  /\ PageUnchangedElsewhere
  /\ page' = [page EXCEPT !.runs = @ (-) SetToBag({r})]
  /\ sent' = <<[k |-> "SCREENSHOT_VERIFY"], [k |-> "response"]>>

\* the page shows or hides its overlay
ToggleOverlay ==
  /\ PageUnchangedElsewhere
  /\ page' = [page EXCEPT !.overlay = ~@]
  /\ sent' = <<>>

\* the user or the page sets the value of the text control while it is not
\* being typed into
SetValue(v) ==
  /\ \A r \in BagToSet(page.runs) : ~(r.pc = "typing" /\ r.el = "field")
  /\ page.value # v
  /\ PageUnchangedElsewhere
  /\ page' = [page EXCEPT !.value = v]
  /\ sent' = <<>>

\* the document is replaced by a new one; what its content script was doing
\* ends with it
PageUnload(tag) ==
  /\ page # FreshPage(tag)
  /\ PageUnchangedElsewhere
  /\ page' = FreshPage(tag)
  /\ sent' = <<>>

NextPage ==
  \/ \E action \in Commands : onExecuteAction(action)
  \/ \E r \in BagToSet(page.runs) : simulateTypeNext(r)
  \/ \E r \in BagToSet(page.runs) : ActionResolved(r)
  \/ ToggleOverlay
  \/ \E v \in Texts : SetValue(v)
  \/ \E tag \in ControlTags : PageUnload(tag)

\* ------------------------------------- Gemini-dock variant of the background
\* The variant of the service worker that serves the Gemini dock
\* (src/unnamed/part_001).  geminiExecutionContext is the run the dock asked
\* for; handleGeminiAgentRun is suspended at the workflows request, at the
\* execute-start request or inside runGeminiTabFallback.  The loop is the
\* loop of the extension with log lines added for the dock, which change no
\* state and are left out; here the screen capture succeeds and the backend
\* answers every execute-step request without an action and without a
\* recovery.
NoTab == 0
Tabs == {1, 2}
Senders == Tabs \cup {NoTab}

\* msg.query as a sequence of characters
Queries == {<<>>, <<" ">>, <<"q">>}

\* !msg.query || !String(msg.query).trim()
QueryMissing(q) == q = <<>> \/ trim(q) = <<>>

GeminiContext(runId, tab, query) ==
  [runId |-> runId, sourceTabId |-> tab, query |-> query, workflowName |-> ""]

GeminiRun(pc, runId) == [pc |-> pc, runId |-> runId]

InProgress == "Another Gemini automation run is already in progress."
AlreadyRunning == "Another execution is already running. Stop it before starting a new one."

GeminiDone(runId, tab, summary) == Msg("GEMINI_AUTOMATION_DONE", runId, tab, summary)

\* pushGeminiLog: a log line to the source tab of the run in progress, if any
pushGeminiLog(ctx, text) ==
  IF ctx = <<>> THEN <<>>
  ELSE <<Msg("GEMINI_AUTOMATION_LOG", ctx[1].runId, ctx[1].sourceTabId, text)>>

\* finishGeminiRun(summary, runIdOverride), runIdOverride 0 when not given:
\* what it sends
finishGeminiRunOut(ctx, summary, runIdOverride) ==
  IF ctx = <<>> \/ (runIdOverride # 0 /\ ctx[1].runId # runIdOverride) THEN <<>>
  ELSE <<GeminiDone(ctx[1].runId, ctx[1].sourceTabId, summary)>>

\* finishGeminiRun: the context it leaves
finishGeminiRun(ctx, runIdOverride) ==
  IF ctx = <<>> \/ (runIdOverride # 0 /\ ctx[1].runId # runIdOverride) THEN ctx
  ELSE <<>>

GeminiRest == <<teachSide, teachState, rec, page>>

\* a handler that starts a run while an execution is running
GEMINI_AGENT_RUN_NoRunningCheck(query, tab) ==
  /\ UNCHANGED <<GeminiRest, executeState, stored, started, loops>>
  /\ IF QueryMissing(query)
       THEN /\ UNCHANGED gemini
            /\ Emit(<<Msg("error", 0, tab, "GEMINI_AGENT_RUN")>>)
       ELSE IF tab = NoTab
         THEN /\ UNCHANGED gemini
              /\ Emit(<<Msg("ok", 0, tab, "GEMINI_AGENT_RUN")>>)
       ELSE IF gemini.context # <<>>
         THEN /\ UNCHANGED gemini
              /\ Emit(<<GeminiDone(0, tab, InProgress), Msg("ok", 0, tab, "GEMINI_AGENT_RUN")>>)
       ELSE /\ gemini.started < MaxRuns
            /\ gemini' = [context |-> <<GeminiContext(gemini.started + 1, tab, query)>>,
                          runs |-> gemini.runs (+) SetToBag({GeminiRun("list", gemini.started + 1)}),
                          started |-> gemini.started + 1]
            /\ Emit(pushGeminiLog(gemini'.context, "Received automation task")
                    \o <<Msg("ok", 0, tab, "GEMINI_AGENT_RUN")>>)

\* case 'GEMINI_AGENT_RUN': a missing or blank query is answered with an
\* error; otherwise handleGeminiAgentRun runs to its first await: it returns
\* when the sender is no tab, answers the tab with GEMINI_AUTOMATION_DONE when
\* a run is in progress or an execution is running, and otherwise sets
\* geminiExecutionContext and requests the saved workflows.  Then the sender
\* is answered ok.
GEMINI_AGENT_RUN(query, tab) ==
  /\ UNCHANGED <<GeminiRest, executeState, stored, started, loops>>
  /\ IF QueryMissing(query)
       THEN /\ UNCHANGED gemini
            /\ Emit(<<Msg("error", 0, tab, "GEMINI_AGENT_RUN")>>)
       ELSE IF tab = NoTab
         THEN /\ UNCHANGED gemini
              /\ Emit(<<Msg("ok", 0, tab, "GEMINI_AGENT_RUN")>>)
       ELSE IF gemini.context # <<>>
         THEN /\ UNCHANGED gemini
              /\ Emit(<<GeminiDone(0, tab, InProgress), Msg("ok", 0, tab, "GEMINI_AGENT_RUN")>>)
       ELSE IF Live(executeState)
         THEN /\ UNCHANGED gemini
              /\ Emit(<<GeminiDone(0, tab, AlreadyRunning), Msg("ok", 0, tab, "GEMINI_AGENT_RUN")>>)
       ELSE /\ gemini.started < MaxRuns
            /\ gemini' = [context |-> <<GeminiContext(gemini.started + 1, tab, query)>>,
                          runs |-> gemini.runs (+) SetToBag({GeminiRun("list", gemini.started + 1)}),
                          started |-> gemini.started + 1]
            /\ Emit(pushGeminiLog(gemini'.context, "Received automation task")
                    \o <<Msg("ok", 0, tab, "GEMINI_AGENT_RUN")>>)

\* the invocation r of handleGeminiAgentRun goes on as t
GeminiStep(r, t) == (gemini.runs (-) SetToBag({r})) (+) t

\* the workflows request returned or threw, and findBestWorkflowMatch found a
\* workflow or none.  With a match the name is written into whatever
\* geminiExecutionContext refers to now (a TypeError that ends the invocation
\* when it is null) and the execute-start request is issued; without one
\* runGeminiTabFallback opens a tab.
GeminiWorkflowsListed(r, matched) ==
  /\ r.pc = "list"
  /\ UNCHANGED <<GeminiRest, executeState, stored, started, loops>>
  /\ IF ~matched
       THEN /\ gemini' = [gemini EXCEPT !.runs = GeminiStep(r, SetToBag({[r EXCEPT !.pc = "fallback"]}))]
            /\ Emit(pushGeminiLog(gemini.context, "No matching saved workflow found")
                    \o pushGeminiLog(gemini.context, "Fallback mode"))
       ELSE IF gemini.context = <<>>
         THEN /\ gemini' = [gemini EXCEPT !.runs = GeminiStep(r, EmptyBag)]
              /\ Emit(<<Msg("log", r.runId, -1, "GEMINI_AGENT_RUN error: TypeError")>>)
       ELSE /\ gemini' = [gemini EXCEPT !.context = <<[@[1] EXCEPT !.workflowName = "workflow"]>>,
                                        !.runs = GeminiStep(r, SetToBag({[r EXCEPT !.pc = "start"]}))]
            /\ Emit(pushGeminiLog(gemini'.context, "Matched workflow")
                    \o <<Msg("start_req", r.runId, -1, "")>>)

\* the execute-start request returned an execution id for a workflow of
\* total steps, total > 0: the session replaces whatever executeState held,
\* a snapshot is stored and runExecuteLoop() runs to its first await
GeminiStartOk(r, total) ==
  /\ r.pc = "start"
  /\ total > 0
  /\ started < MaxStarts
  /\ started' = started + 1
  /\ executeState' = <<NewSession(started + 1, total)>>
  /\ stored' = [stored EXCEPT !.executeState = executeState']
  /\ loops' = loops (+) HeadLoop(executeState')
  /\ gemini' = [gemini EXCEPT !.runs = GeminiStep(r, EmptyBag)]
  /\ UNCHANGED GeminiRest
  /\ Emit(pushGeminiLog(gemini.context, "Started workflow execution") \o HeadOut(executeState'))

\* the execute-start request threw, or its answer has no execution_id, or
\* the workflow has no steps: a log line, then runGeminiTabFallback
GeminiStartFail(r) ==
  /\ r.pc = "start"
  /\ gemini' = [gemini EXCEPT !.runs = GeminiStep(r, SetToBag({[r EXCEPT !.pc = "fallback"]}))]
  /\ UNCHANGED <<GeminiRest, executeState, stored, started, loops>>
  /\ Emit(pushGeminiLog(gemini.context, "Failed to start matched workflow")
          \o pushGeminiLog(gemini.context, "Fallback mode"))

\* runGeminiTabFallback came to its end, with or without an error:
\* finishGeminiRun(summary, runId) ends the run if it is still this one
runGeminiTabFallback(r) ==
  /\ r.pc = "fallback"
  /\ gemini' = [gemini EXCEPT !.context = finishGeminiRun(gemini.context, r.runId),
                              !.runs = GeminiStep(r, EmptyBag)]
  /\ UNCHANGED <<GeminiRest, executeState, stored, started, loops>>
  /\ Emit(finishGeminiRunOut(gemini.context, "Fallback done", r.runId))

\* case 'EXECUTE_STOP' of the variant: as in the extension, and a run in
\* progress is logged to and finished
EXECUTE_STOP_Dock ==
  /\ executeState' = Null
  /\ stored' = [stored EXCEPT !.executeState = Null]
  /\ gemini' = [gemini EXCEPT !.context = finishGeminiRun(gemini.context, 0)]
  /\ UNCHANGED <<GeminiRest, started, loops>>
  /\ EmitObs(pushGeminiLog(gemini.context, "Execution stopped by user.")
             \o finishGeminiRunOut(gemini.context, "Execution stopped by user.", 0)
             \o <<Msg("ok", 0, -1, "EXECUTE_STOP")>>,
             IF executeState # Null
               THEN <<Msg("stopped", executeState[1].executionId, -1, "")>>
               ELSE <<>>)

\* completeExecution of the variant: as in the extension, and a run in
\* progress is finished
completeExecutionDock(s) ==
  /\ s.pc = "completing"
  /\ Step(s, EmptyBag)
  /\ executeState' = Null
  /\ stored' = [stored EXCEPT !.executeState = Null]
  /\ gemini' = [gemini EXCEPT !.context = finishGeminiRun(gemini.context, 0)]
  /\ UNCHANGED <<GeminiRest, started>>
  /\ Emit(<<Msg("complete", s.eid, -1, "")>>
          \o finishGeminiRunOut(gemini.context, "completed successfully", 0))

NextGemini ==
  \/ \E query \in Queries, tab \in Senders : GEMINI_AGENT_RUN(query, tab)
  \/ \E r \in BagToSet(gemini.runs), matched \in BOOLEAN : GeminiWorkflowsListed(r, matched)
  \/ \E r \in BagToSet(gemini.runs), total \in StepIdx : GeminiStartOk(r, total)
  \/ \E r \in BagToSet(gemini.runs) : GeminiStartFail(r)
  \/ \E r \in BagToSet(gemini.runs) : runGeminiTabFallback(r)
  \/ \E total \in StepIdx : EXECUTE_START(total)
  \/ EXECUTE_STOP_Dock
  \/ \E s \in BagToSet(loops) : LoopCaptureOk(s)
  \/ \E s \in BagToSet(loops) : LoopInferAction(s, "-")
  \/ \E s \in BagToSet(loops) : LoopSettle(s)
  \/ \E s \in BagToSet(loops) : completeExecutionDock(s)

SpecGemini == Init /\ [][NextGemini]_vars

SpecPage == Init /\ [][NextPage]_vars

TypeOK ==
  /\ started \in 0..MaxStarts
  /\ BagCardinality(loops) <= started
  /\ \A s \in BagToSet(loops) :
       /\ s.pc \in {"capture", "infer", "retrySleep", "recoveryWait", "dispatchQuery",
                    "actionRun", "settle", "completing"}
       /\ s.eid \in ExecIds \cup {0}
  /\ Len(executeState) <= 1
  /\ Len(teachState) <= 1

\* ================================================================== claims
Sent(k) == {i \in 1..Len(sent) : sent[i].k = k}
SentNext(k) == {i \in 1..Len(sent') : sent'[i].k = k}

\* the invocation s took a step: one copy of it left the bag
Moved(s) == CopiesIn(s, loops') < CopiesIn(s, loops)

SameSession == /\ executeState # Null
               /\ executeState' # Null
               /\ executeState'[1].executionId = executeState[1].executionId

\* C1: an ExecutionSession's stepIndex never decreases, changes only by +1 and
\* only in the step that ends a settle delay (the one that emits step_done),
\* and never exceeds totalSteps.
C1_StepIndexBounded ==
  [][ /\ SameSession =>
           /\ executeState'[1].stepIndex >= executeState[1].stepIndex
           /\ executeState'[1].stepIndex # executeState[1].stepIndex =>
                /\ executeState'[1].stepIndex = executeState[1].stepIndex + 1
                /\ SentNext("step_done") # {}
      /\ executeState' # Null => executeState'[1].stepIndex <= executeState'[1].totalSteps
    ]_vars

\* C2: a step taken while executeState.awaitingRecovery is true sends no
\* EXECUTE_ACTION and leaves the session's stepIndex as it is.
C2_NoDispatchWhileAwaiting ==
  [][ (executeState # Null /\ executeState[1].awaitingRecovery) =>
        /\ SentNext("EXECUTE_ACTION") = {}
        /\ SameSession => executeState'[1].stepIndex = executeState[1].stepIndex
    ]_vars

\* C3: handleRecovery sends the recover request and clears awaitingRecovery
\* only for a resolution that matches the session: the session exists, has the
\* resolution's execution id, awaits recovery and is at the resolution's index.
Matches(h) ==
  /\ executeState # Null
  /\ executeState[1].executionId = h.eid
  /\ executeState[1].awaitingRecovery
  /\ executeState[1].stepIndex = h.idx

C3_StaleResolutionIgnored ==
  [][ \A r \in RecoverSlots :
        /\ (rec[r].pc = "shot" /\ rec'[r].pc = "call") => Matches(rec[r])
        /\ (rec[r].pc = "call" /\ rec'[r].pc = "free" /\ ~Matches(rec[r])) =>
              executeState' = executeState
    ]_vars

\* C4: the step that handles EXECUTE_STOP during a recovery wait leaves no
\* running session, and no EXECUTE_ACTION is sent afterwards for an execution
\* stopped that way.
C4_NoDispatchAfterStopInRecovery ==
  [][ /\ \A e \in ExecIds :
           (~hist[e].stoppedAwaiting /\ hist'[e].stoppedAwaiting) => ~Live(executeState')
      /\ \A i \in SentNext("EXECUTE_ACTION") : ~hist'[sent'[i].eid].stoppedAwaiting
    ]_vars

\* C5: a recovery_needed result for index i emits a recovery event carrying i;
\* the return of the recover call leaves awaitingRecovery cleared; and the
\* loop that waited, when it goes on, issues its next iteration for the same
\* execution and the same index i (or returns, after a stop).
C5_RecoveryRetriesSameIndex ==
  [][ /\ \A s \in At("infer") :
           (Moved(s) /\ SentNext("recovery") # {}) =>
              \A i \in SentNext("recovery") : sent'[i].idx = s.idx
      /\ \A r \in RecoverSlots :
           (rec[r].pc = "call" /\ rec'[r].pc = "free") =>
              (executeState' = Null \/ ~executeState'[1].awaitingRecovery)
      /\ \A s \in At("recoveryWait") :
           Moved(s) =>
              \/ loops' = loops (-) SetToBag({s})
              \/ loops' = (loops (-) SetToBag({s})) (+) SetToBag({Loop("capture", s.eid, s.idx, "-")})
    ]_vars

\* C6: for an execution with no capture failure, no execute-step failure and
\* no recovery, the execute-step requests carry the indices 0, 1, 2, ... in
\* this order, each once, and the complete request is issued only after the
\* request for the last index totalSteps - 1.
C6_CleanRunRequestsInOrder ==
  [][ /\ \A i \in SentNext("execute_step") :
           hist'[sent'[i].eid].clean => sent'[i].idx = hist[sent'[i].eid].lastReq + 1
      /\ \A i \in SentNext("complete_req") :
           hist'[sent'[i].eid].clean =>
              hist'[sent'[i].eid].lastReq = executeState'[1].totalSteps - 1
    ]_vars

\* C7: the step that emits Completed leaves no session in memory and none in
\* the store, and after the Completed event of an execution no execute-step
\* request and no EXECUTE_ACTION is sent for it.
C7_NothingAfterCompleted ==
  /\ Sent("complete") # {} => (executeState = Null /\ stored.executeState = Null)
  /\ \A i \in Sent("execute_step") \cup Sent("EXECUTE_ACTION") : ~hist[sent[i].eid].completed

\* C8: a failed capture or a failed execute-step call sends no EXECUTE_ACTION,
\* leaves the session as it is and puts the loop to sleep; when the sleep
\* ends the loop returns (after a stop) or issues an iteration for the same
\* execution and the same index, however often it failed before.
C8_FailureRetriesSameIndex ==
  [][ /\ (SentNext("capture_failed") # {} \/ SentNext("infer_failed") # {}) =>
           /\ SentNext("EXECUTE_ACTION") = {}
           /\ executeState' = executeState
           /\ \E s \in At("capture") \cup At("infer") :
                loops' = (loops (-) SetToBag({s})) (+) SetToBag({[s EXCEPT !.pc = "retrySleep"]})
      /\ \A s \in At("retrySleep") :
           Moved(s) =>
              \/ loops' = loops (-) SetToBag({s})
              \/ loops' = (loops (-) SetToBag({s})) (+) SetToBag({Loop("capture", s.eid, s.idx, "-")})
    ]_vars

\* C9: for an action of a type executeAction does not know, the dispatcher
\* touches nothing on the page and answers ok, the loop goes on to its settle
\* delay, and the step that ends the delay emits step_done for that index and
\* adds exactly 1 to the stepIndex of the session in executeState (the code's
\* `if (executeState) executeState.stepIndex++`).
Unknown(type) == type \notin KnownTypes /\ type # "-"

C9_UnknownActionIsNoOp ==
  [][ /\ \A s \in At("actionRun") :
           (Unknown(s.act) /\ Moved(s)) =>
              /\ SentNext("page") = {}
              /\ \E i \in SentNext("response") : sent'[i] = Msg("response", s.eid, s.idx, "ok")
              /\ loops' = (loops (-) SetToBag({s})) (+) SetToBag({[s EXCEPT !.pc = "settle"]})
              /\ executeState' = executeState
      /\ \A s \in At("settle") :
           (Unknown(s.act) /\ Moved(s)) =>
              /\ Len(sent') >= 1
              /\ sent'[1] = Msg("step_done", s.eid, s.idx, s.act)
              /\ executeState # Null =>
                    executeState' = <<[executeState[1] EXCEPT !.stepIndex = @ + 1]>>
    ]_vars

\* an unknown action went through the dispatcher's default case and its step
\* was completed and counted
C9_Witness ==
  \E i \in Sent("step_done") :
     /\ Unknown(sent[i].arg)
     /\ executeState # Null
     /\ executeState[1].executionId = sent[i].eid
     /\ executeState[1].stepIndex = sent[i].idx + 1

\* C10: at most one invocation of runExecuteLoop is in progress and at most
\* one TeachSession is recording.
C10_OneLoopOneTeachSession ==
  /\ BagCardinality(loops) <= 1
  /\ Len(teachState) <= 1

\* the number of invocations of runExecuteLoop in ls suspended at p
CountAt(ls, p) == BagCardinality([s \in {t \in BagToSet(ls) : t.pc = p} |-> ls[s]])

\* C11: an execute-step request is issued by an iteration for its execution
\* and index; an iteration for an index i+1 is begun only by the step that
\* emits step_done for i, or by a retry of an iteration for i+1; step_done for
\* i is emitted only when no dispatch for i is still unanswered; and never
\* are two execute-step requests or two EXECUTE_ACTION messages in flight at
\* the same time.
C11_OneStepAtATime ==
  [][ /\ \A i \in SentNext("execute_step") :
           \E s \in At("capture") : Moved(s) /\ s.eid = sent'[i].eid /\ s.idx = sent'[i].idx
      /\ \A c \in BagToSet(loops') :
           (c.pc = "capture" /\ c.idx >= 1 /\ CopiesIn(c, loops') > CopiesIn(c, loops)) =>
              \/ \E i \in SentNext("step_done") :
                    sent'[i].eid = c.eid /\ sent'[i].idx = c.idx - 1
              \/ \E s \in At("retrySleep") \cup At("recoveryWait") :
                    Moved(s) /\ s.eid = c.eid /\ s.idx = c.idx
      /\ \A i \in SentNext("step_done") :
           \A s \in At("dispatchQuery") \cup At("actionRun") :
              ~(s.eid = sent'[i].eid /\ s.idx = sent'[i].idx)
      /\ CountAt(loops', "infer") <= 1
      /\ CountAt(loops', "actionRun") <= 1
    ]_vars

\* C12: the step that handles EXECUTE_STOP leaves no session in memory and
\* none in the store (and changes nothing when there was none); a loop whose
\* execution was stopped returns at its next loop check, and no iteration is
\* begun for a stopped execution.
StopHandled == (\E i \in SentNext("ok") : sent'[i].arg = "EXECUTE_STOP")

AtCheck(s) == s.pc \in {"retrySleep", "recoveryWait", "settle"} /\ Moved(s)

C12_StopEndsLoop ==
  [][ /\ StopHandled =>
           /\ executeState' = Null
           /\ stored'.executeState = Null
           /\ executeState = Null => UNCHANGED <<stored, loops, rec>>
      /\ \A s \in BagToSet(loops) :
           (hist[s.eid].stopped /\ AtCheck(s)) => loops' = loops (-) SetToBag({s})
      /\ \A s \in BagToSet(loops') :
           (s.pc \in {"capture", "completing"} /\ hist'[s.eid].stopped) =>
              CopiesIn(s, loops') <= CopiesIn(s, loops)
    ]_vars

\* C13: a session whose awaitingRecovery is true has running = true, in
\* memory and in the store.
C13_AwaitingImpliesRunning ==
  /\ executeState # Null => (executeState[1].awaitingRecovery => executeState[1].running)
  /\ stored.executeState # Null =>
        (stored.executeState[1].awaitingRecovery => stored.executeState[1].running)

\* a session awaits recovery while an earlier execution, stopped during its
\* own recovery wait, is still held by its loop
C13_Witness ==
  /\ executeState # Null
  /\ executeState[1].awaitingRecovery
  /\ \E s \in At("recoveryWait") : hist[s.eid].stoppedAwaiting

\* C14: a session that exists, in memory or in the store, is never replaced
\* by another session of its kind.
C14_NoSessionOverwritten ==
  [][ /\ (executeState # Null /\ executeState' # Null) =>
           executeState'[1].executionId = executeState[1].executionId
      /\ (stored.executeState # Null /\ stored'.executeState # Null) =>
           stored'.executeState[1].executionId = stored.executeState[1].executionId
      /\ (teachState # Null /\ teachState' # Null) => teachState' = teachState
      /\ (stored.teachState # Null /\ stored'.teachState # Null) =>
           stored'.teachState = stored.teachState
    ]_vars

\* C15: the copy of each session in the session store equals the session in
\* memory.
C15_StoreEqualsMemory ==
  /\ stored.executeState = executeState
  /\ stored.teachState = teachState

\* C16: a CONTENT_CLICK handled while the session store holds a teachState is
\* taken up as a step of that session: the service worker holds the stored
\* session again and handleTeachClick goes on to its screenshot.
ClickHandled(i) == sent'[i].k = "ok" /\ sent'[i].arg = "CONTENT_CLICK"

C16_ClickAfterRestartSubmitted ==
  [][ \A i \in SentNext("ok") :
        (ClickHandled(i) /\ stored.teachState # Null) =>
           /\ teachState' = stored.teachState
           /\ clicks' = clicks (+) SetToBag({[pc |-> "shot", idx |-> sent'[i].idx]})
    ]_vars

Blank(name) == \A i \in 1..Len(name) : name[i] = " "

StartRecordingCalled == SentNext("focus") # {} \/ SentNext("start_req") # {}

C18_BlankNameRejected ==
  [][ (StartRecordingCalled /\ Blank(popup[1].nameInput)) =>
        /\ SentNext("start_req") = {}
        /\ SentNext("TEACH_START") = {}
        /\ UNCHANGED <<popup, teachState, stored, toBg, issued>>
    ]_vars

\* startRecording has just rejected a name of white space only
C18_Witness ==
  /\ Sent("focus") # {}
  /\ popup # <<>>
  /\ popup[1].nameInput # <<>>
  /\ Blank(popup[1].nameInput)
  /\ popup[1].starting = 0
  /\ ~popup[1].isRecording

\* C19: while a teach session is stored, each click the content script
\* forwards carries a stepIndex greater than that of the session's click
\* before it.
C19_StepIndexIncreases ==
  [][ \A i \in SentNext("CONTENT_CLICK") :
        stored.teachState # Null => sent'[i].idx > lastClick
    ]_vars

\* C20: a submit-step request is issued only while the service worker holds
\* a teach session, and for that session.
C20_SubmitOnlyWhileTeaching ==
  [][ \A i \in SentNext("teach_step") :
        /\ teachState # Null
        /\ sent'[i].arg = ToString(teachState[1].sessionId)
    ]_vars

\* a click's screenshot resolved after TEACH_STOP was handled, and nothing
\* was submitted for it
C20_Witness ==
  /\ \E i \in Sent("log") : sent[i].arg = "/teach/step error: TypeError"
  /\ teachState = Null
  /\ stored.teachState = Null

\* C21: the step in which a click's screenshot or its submit-step request
\* fails leaves teachState, its stored copy and the content script's teach
\* mode as they are and sends no STEP_CAPTURED; and whatever failed before,
\* a CONTENT_CLICK handled while a session is held goes on to its screenshot,
\* and a screenshot that resolves while a session is held is followed by the
\* submit-step request for that click.
TeachFailed(i) == sent'[i].arg \in {"screenshot failed", "/teach/step error"}

\* the screenshot awaited by the invocation c resolved: c went on, neither by
\* a failure nor by the end of the service worker
ShotResolved(c) ==
  /\ c.pc = "shot"
  /\ CopiesIn(c, clicks') < CopiesIn(c, clicks)
  /\ SentNext("log") = {}
  /\ SentNext("startup") = {}

C21_TeachFailureKeepsSession ==
  [][ /\ \A i \in SentNext("log") :
           TeachFailed(i) =>
              /\ UNCHANGED <<teachState, stored, content, toTab>>
              /\ SentNext("STEP_CAPTURED") = {}
              /\ BagCardinality(clicks') = BagCardinality(clicks) - 1
      /\ \A i \in SentNext("ok") :
           (ClickHandled(i) /\ teachState # Null) =>
              clicks' = clicks (+) SetToBag({[pc |-> "shot", idx |-> sent'[i].idx]})
      /\ \A c \in BagToSet(clicks) :
           (ShotResolved(c) /\ teachState # Null) =>
              /\ \E i \in SentNext("teach_step") : sent'[i].idx = c.idx
              /\ clicks' = (clicks (-) SetToBag({c})) (+) SetToBag({[c EXCEPT !.pc = "submit"]})
    ]_vars

\* the submit-step request of the session's first click has just failed; the
\* session is held and stored, the page is in teach mode, and the click made
\* after it has been captured and submitted
C21_Witness ==
  /\ \E i \in Sent("log") : sent[i].arg = "/teach/step error" /\ sent[i].idx = 0
  /\ teachState # Null
  /\ stored.teachState = teachState
  /\ content.teachModeActive
  /\ \E c \in BagToSet(clicks) : c.pc = "submit" /\ c.idx = 1

\* C22: a finish-teach request is issued only by a popup that is recording,
\* in a step that first sends TEACH_STOP to the service worker and then that
\* one request, carrying the session id the popup holds, an id the backend
\* handed out; the step leaves the popup not recording, so that a further
\* stop in this popup sends nothing; and the step that handles TEACH_STOP
\* leaves no teach session in memory and none in the store.
TeachStopHandled == Receives("TEACH_STOP") /\ toBg' = Tail(toBg)

Quiet == toTab = [msgs |-> <<>>, events |-> <<>>] /\ content.pc = "ready"

\* the content script handled the tab message m, or the change e of the store
TabMsgHandled(m) ==
  /\ toTab.msgs # <<>>
  /\ Head(toTab.msgs) = m
  /\ toTab' = [toTab EXCEPT !.msgs = Tail(@)]
  /\ SentNext("injected") = {}

StoreEventHandled(e) ==
  /\ toTab.events # <<>>
  /\ Head(toTab.events) = e
  /\ toTab' = [toTab EXCEPT !.events = Tail(@)]
  /\ SentNext("injected") = {}

DiscardPressed ==
  /\ SentNext("TEACH_STOP") # {}
  /\ popup # <<>>
  /\ popup' # <<>>
  /\ popup[1].view # "dashboard"
  /\ popup'[1].view = "dashboard"

C23_DiscardFinishesNothing ==
  [][ /\ DiscardPressed =>
           /\ sent' = <<Msg("TEACH_STOP", 0, -1, "")>>
           /\ toBg' = Append(toBg, BgMsg("TEACH_STOP", 0, -1))
           /\ ~popup'[1].isRecording
           /\ popup'[1].finishing = popup[1].finishing
      /\ TeachStopHandled =>
           /\ teachState' = Null
           /\ stored'.teachState = Null
           /\ toTab'.msgs = Append(toTab.msgs, "TEACH_MODE_OFF")
           /\ stored.teachState # Null => toTab'.events = Append(toTab.events, "removed")
           /\ SentNext("finish_req") = {}
      /\ TabMsgHandled("TEACH_MODE_OFF") => ~content'.teachModeActive
      /\ StoreEventHandled("removed") => ~content'.teachModeActive
      /\ (Quiet /\ stored.teachState = Null) => ~content.teachModeActive
    ]_vars

\* the recording has just been cancelled while the service worker holds the
\* session and the page is in teach mode: TEACH_STOP is on its way and no
\* finish-teach request is in flight
C23_Witness ==
  /\ sent = <<Msg("TEACH_STOP", 0, -1, "")>>
  /\ popup # <<>>
  /\ popup[1].view = "dashboard"
  /\ popup[1].finishing = 0
  /\ teachState # Null
  /\ stored.teachState = teachState
  /\ content.teachModeActive
  /\ toBg = <<BgMsg("TEACH_STOP", 0, -1)>>

\* C24: the step in which startRecording receives the session id of its
\* start-teach request leaves the popup recording for that id and sends
\* TEACH_START with it to the service worker; the step that handles
\* TEACH_START leaves a teach session with the message's id in memory and the
\* same session in the store and sends TEACH_MODE_ON to the page; the content
\* script's TEACH_MODE_ON handler and its handler of the store's change leave
\* it in teach mode with stepIndex 0; and once the store holds a session and
\* nothing is on its way to the content script, the page is in teach mode.
StartReturned == popup # <<>> /\ popup' # <<>> /\ issued' = issued + 1

TeachStartHandled == Receives("TEACH_START") /\ toBg' = Tail(toBg)

C24_StartLeadsToTeachMode ==
  [][ /\ StartReturned =>
           /\ popup'[1].isRecording
           /\ popup'[1].teachSessionId = issued'
           /\ toBg' = Append(toBg, BgMsg("TEACH_START", issued', -1))
           /\ \E i \in SentNext("TEACH_START") : sent'[i].arg = ToString(issued')
      /\ TeachStartHandled =>
           /\ teachState' = <<[sessionId |-> Head(toBg).sessionId]>>
           /\ stored'.teachState = teachState'
           /\ toTab'.msgs = Append(toTab.msgs, "TEACH_MODE_ON")
           /\ stored.teachState # teachState' => toTab'.events = Append(toTab.events, "set")
      /\ TabMsgHandled("TEACH_MODE_ON") =>
           (content'.teachModeActive /\ content'.stepIndex = 0)
      /\ StoreEventHandled("set") =>
           (content'.teachModeActive /\ content'.stepIndex = 0)
      /\ (Quiet /\ stored.teachState # Null) => content.teachModeActive
    ]_vars

\* the state startRecording leads to: the service worker holds and has stored
\* the session with the id the backend returned, nothing is in flight, and
\* the page is in teach mode with its counter at 0
C24_Witness ==
  /\ issued >= 1
  /\ teachState = <<[sessionId |-> issued]>>
  /\ stored.teachState = teachState
  /\ toBg = <<>>
  /\ Quiet
  /\ content.teachModeActive
  /\ content.stepIndex = 0
  /\ clicked = 0

\* C25: startExecution, called with a workflow whose step_count is N, keeps N
\* as its totalSteps; the EXECUTE_START it sends after the start-execution
\* response carries the totalSteps of that call; and the step that handles
\* EXECUTE_START leaves, in memory and in the store, a session with the
\* message's execution id, totalSteps = the message's totalSteps,
\* stepIndex = 0 and running = true.
ExecStartHandled == Receives("EXECUTE_START") /\ toBg' = Tail(toBg)

C25_StartExecutionSession ==
  [][ /\ \A i \in SentNext("startExecution") :
           sent'[i].idx # Absent =>
              popup'[1].startingExec = Append(popup[1].startingExec, sent'[i].idx)
      /\ \A i \in SentNext("EXECUTE_START") :
           \E n \in 1..Len(popup[1].startingExec) :
              /\ popup'[1].startingExec = Without(popup[1].startingExec, n)
              /\ toBg' = Append(toBg, ExecMsg("EXECUTE_START", sent'[i].eid,
                                              popup[1].startingExec[n]))
      /\ ExecStartHandled =>
           /\ executeState' # Null
           /\ executeState'[1].executionId = Head(toBg).executionId
           /\ executeState'[1].totalSteps = Head(toBg).totalSteps
           /\ executeState'[1].stepIndex = 0
           /\ executeState'[1].running
           /\ stored'.executeState = executeState'
    ]_vars

\* EXECUTE_START has just been handled for a workflow of MaxSteps steps: the
\* session the popup asked for exists with stepIndex 0 and is running
C25_Witness ==
  /\ \E i \in Sent("ok") : sent[i].arg = "EXECUTE_START"
  /\ popup # <<>>
  /\ popup[1].activeExecution # <<>>
  /\ popup[1].activeExecution[1].totalSteps = MaxSteps
  /\ executeState # Null
  /\ executeState[1].executionId = popup[1].activeExecution[1].executionId
  /\ executeState[1].totalSteps = MaxSteps
  /\ executeState[1].stepIndex = 0
  /\ executeState[1].running

\* C26: a start-execution request that throws sends no EXECUTE_START and
\* leaves activeExecution, the service worker's session and its loops as they
\* are; an EXECUTE_START is sent only with an execution id; and no session and
\* no invocation of runExecuteLoop exists without one.
C26_NoSessionWithoutExecutionId ==
  [][ /\ SentNext("execute_status") # {} =>
           /\ SentNext("EXECUTE_START") = {}
           /\ popup'[1].activeExecution = popup[1].activeExecution
           /\ UNCHANGED <<toBg, executeState, stored, loops>>
      /\ \A i \in SentNext("EXECUTE_START") : sent'[i].eid # 0
      /\ executeState' # Null => executeState'[1].executionId # 0
      /\ \A s \in BagToSet(loops') : s.eid # 0
    ]_vars

\* C29: a complete request is issued for an execution only by the loop's
\* completion check, for the session executeState holds and when its
\* stepIndex has reached its totalSteps, or by the popup's stopExecution, for
\* its activeExecution and together with the EXECUTE_STOP it sends.
C29_CompleteOnlyWhenDoneOrStopped ==
  [][ \A i \in SentNext("complete_req") :
        \/ /\ executeState' # Null
           /\ executeState'[1].executionId = sent'[i].eid
           /\ executeState'[1].stepIndex >= executeState'[1].totalSteps
           /\ \E s \in BagToSet(loops') :
                 s.pc = "completing" /\ s.eid = sent'[i].eid
                   /\ CopiesIn(s, loops') > CopiesIn(s, loops)
        \/ /\ popup # <<>>
           /\ popup[1].activeExecution # <<>>
           /\ popup[1].activeExecution[1].executionId = sent'[i].eid
           /\ \E j \in SentNext("EXECUTE_STOP") : j < i /\ sent'[j].eid = sent'[i].eid
           /\ toBg' = Append(toBg, ExecMsg("EXECUTE_STOP", sent'[i].eid, 0))
    ]_vars

\* the user has just stopped an execution that has steps left: the popup has
\* issued the complete request for it and its EXECUTE_STOP is on its way to
\* the service worker, which still holds the session
C29_Witness ==
  /\ \E i \in Sent("complete_req") :
        /\ sent[i].arg = "stopExecution"
        /\ executeState # Null
        /\ executeState[1].executionId = sent[i].eid
        /\ executeState[1].stepIndex < executeState[1].totalSteps
  /\ toBg # <<>>
  /\ toBg[Len(toBg)].type = "EXECUTE_STOP"

\* C27: no step of runExecuteLoop throws an error that nothing catches.
C27_NoUncaughtError == Sent("uncaught") = {}

\* C28: the step in which a capture fails or an execute-step request fails
\* sends a status message to the popup, for the same execution and index,
\* before the loop goes to its retry sleep.
C28_FailureStatusSurfaced ==
  [][ \A i \in SentNext("capture_failed") \cup SentNext("infer_failed") :
        \E j \in SentNext("status") :
           /\ sent'[j].eid = sent'[i].eid
           /\ sent'[j].idx = sent'[i].idx
           /\ sent'[j].arg = "retrying"
    ]_vars

\* C30: when no stop is issued, every capture and execute-step call that is
\* retried eventually succeeds and every recovery question is eventually
\* answered, each execution that has a session eventually emits Completed, in
\* a step that leaves no session in memory and none in the store.
Started(e) == executeState # Null /\ executeState[1].executionId = e

Completed(e) ==
  /\ \E i \in Sent("complete") : sent[i].eid = e
  /\ executeState = Null
  /\ stored.executeState = Null

C30_EventuallyCompleted == \A e \in ExecIds : Started(e) ~> Completed(e)

\* the step handles an EXECUTE_ACTION message of the given type
Executes(type) ==
  /\ sent' # <<>>
  /\ sent'[1].k = "EXECUTE_ACTION"
  /\ sent'[1].action.type = type

\* the integer nearest to q / 4 of size, the upper one of two
Nearest(q, size) ==
  CHOOSE n \in (0 - size)..(2 * size) : 4 * n - 2 <= q * size /\ q * size < 4 * n + 2

\* C31: a click command dispatches nothing when the page, as it is in the
\* step that handles the command, has no element at the pixel nearest to the
\* normalized point; otherwise it dispatches exactly mouseover, mouseenter,
\* mousedown, mouseup, click, in this order, all on the topmost element at
\* that pixel and all positioned at the centre of its bounding box.
C31_ClickSequenceAtCentre ==
  [][ Executes("click") =>
        LET a == sent'[1].action
            el == elementFromPoint(page, Nearest(a.x, Viewport.innerWidth),
                                   Nearest(a.y, Viewport.innerHeight))
            rect == getBoundingClientRect(el)
        IN  IF el = "null" THEN Len(sent') = 1
            ELSE /\ Len(sent') = 6
                 /\ <<sent'[2].k, sent'[3].k, sent'[4].k, sent'[5].k, sent'[6].k>> =
                      <<"mouseover", "mouseenter", "mousedown", "mouseup", "click">>
                 /\ \A i \in 2..6 :
                      /\ sent'[i].target = el
                      /\ sent'[i].clientX2 = 2 * rect.left + rect.width
                      /\ sent'[i].clientY2 = 2 * rect.top + rect.height
    ]_vars

\* a click that was requested at a point of the link while the overlay
\* was up: it went to the overlay, at the overlay's centre
C31_Witness ==
  /\ Len(sent) = 6
  /\ sent[1].k = "EXECUTE_ACTION"
  /\ sent[1].action.type = "click"
  /\ elementFromPoint(FreshPage("INPUT"), PixelX(sent[1].action.x),
                      PixelY(sent[1].action.y)) = "link"
  /\ sent[6].k = "click"
  /\ sent[6].target = "overlay"
  /\ sent[6].clientX2 # 2 * PixelX(sent[1].action.x)

\* what one character typed into el dispatches, in order
TypedKeys(control, el, char) ==
  IF control
    THEN <<DomEvent("keydown", el, 0, 0, char), DomEvent("keypress", el, 0, 0, char),
           DomEvent("input", el, 0, 0, char), DomEvent("keyup", el, 0, 0, char)>>
    ELSE <<DomEvent("keydown", el, 0, 0, char), DomEvent("keypress", el, 0, 0, char),
           DomEvent("keyup", el, 0, 0, char)>>

\* the invocation r of simulateType took a step
Typed(r) ==
  /\ r.pc = "typing"
  /\ sent' # <<>>
  /\ CopiesIn(r, page'.runs) < CopiesIn(r, page.runs)

\* C32: a type command focuses the element at its point and, if that is an
\* INPUT or a TEXTAREA, clears its value; every character of the text, in
\* order, gets keydown, keypress, the character appended to the value with
\* an input event, and keyup; after the last character comes exactly one
\* change event, and the value of an INPUT or TEXTAREA is then the text.
C32_TypeLeavesText ==
  [][ /\ Executes("type") =>
           LET a == sent'[1].action
               text == IF a.value.t = "undefined" THEN <<>> ELSE a.value.s
               el == elementFromPoint(page, Nearest(a.x, Viewport.innerWidth),
                                      Nearest(a.y, Viewport.innerHeight))
               control == el = "field"
           IN  IF el = "null" THEN Len(sent') = 1 /\ page'.value = page.value
               ELSE /\ sent'[2] = DomEvent("focus", el, 0, 0, "")
                    /\ SubSeq(sent', 3, Len(sent')) =
                         IF text = <<>> THEN <<DomEvent("change", el, 0, 0, "")>>
                         ELSE TypedKeys(control, el, text[1])
                    /\ page'.value = IF ~control THEN page.value
                                      ELSE IF text = <<>> THEN <<>> ELSE <<text[1]>>
      /\ \A r \in BagToSet(page.runs) :
           Typed(r) =>
             IF r.i < Len(r.text)
               THEN /\ sent' = TypedKeys(r.el = "field", r.el, r.text[r.i + 1])
                    /\ page'.value = IF r.el = "field"
                                       THEN Append(page.value, r.text[r.i + 1])
                                       ELSE page.value
               ELSE /\ sent' = <<DomEvent("change", r.el, 0, 0, "")>>
                    /\ r.el = "field" => page'.value = r.text
    ]_vars

\* the value is a number: a JSON number, or a string that is a whole decimal
\* numeral, with or without a sign, and nothing else
Digits(s) == s # <<>> /\ \A i \in 1..Len(s) : s[i] \in {"0", "3"}

Numeric(value) ==
  \/ value.t = "number"
  \/ /\ value.t = "string"
     /\ \/ Digits(value.s)
        \/ value.s # <<>> /\ Head(value.s) = "-" /\ Digits(Tail(value.s))

RECURSIVE Decimal(_)
Decimal(s) ==
  IF s = <<>> THEN 0
  ELSE 10 * Decimal(SubSeq(s, 1, Len(s) - 1)) + (IF s[Len(s)] = "3" THEN 3 ELSE 0)

NumberOf(value) ==
  IF value.t = "number" THEN value.n
  ELSE IF Head(value.s) = "-" THEN 0 - Decimal(Tail(value.s)) ELSE Decimal(value.s)

\* C33: a scroll command scrolls by its value when the value is a number and
\* by 300 exactly when the value is missing or not a number: down and up
\* vertically by +amount and -amount, right and left horizontally by +amount
\* and -amount.
C33_ScrollByLiteralAmount ==
  [][ Executes("scroll") =>
        LET a == sent'[1].action
            amount == IF Numeric(a.value) THEN NumberOf(a.value) ELSE 300
            call == sent'[2]
        IN  /\ Len(sent') = 2
            /\ call.k = "scrollBy"
            /\ a.scroll_direction = "down" => (call.top = amount /\ call.left = 0)
            /\ a.scroll_direction = "up" => (call.top = 0 - amount /\ call.left = 0)
            /\ a.scroll_direction = "right" => (call.left = amount /\ call.top = 0)
            /\ a.scroll_direction = "left" => (call.left = 0 - amount /\ call.top = 0)
    ]_vars


\* C34: a recovery wait is ended only by a resolution submitted after that
\* recovery request was raised: the return of a recover call whose
\* EXECUTE_RECOVER was received before the request was raised never turns
\* awaitingRecovery from true to false.
EndsWait ==
  /\ executeState # Null
  /\ executeState[1].awaitingRecovery
  /\ executeState' # Null
  /\ ~executeState'[1].awaitingRecovery

C34_WaitEndedByLaterResolution ==
  [][ \A r \in RecoverSlots :
        (rec[r].pc = "call" /\ rec'[r].pc = "free" /\ rec[r].early) => ~EndsWait
    ]_vars

\* the invocation c came into being in this step
Begun(c) == CopiesIn(c, loops') > CopiesIn(c, loops)

\* C35: an invocation of runExecuteLoop started for one execution never acts
\* on another: the iteration it goes on with is for the execution id it held
\* before, and the step in which it increments stepIndex increments the
\* session of that execution.
C35_LoopKeepsItsExecution ==
  [][ \A s \in BagToSet(loops) :
        Moved(s) =>
          /\ \A c \in BagToSet(loops') : Begun(c) => c.eid = s.eid
          /\ (s.pc = "settle" /\ executeState # Null /\ executeState' # executeState) =>
                executeState[1].executionId = s.eid
    ]_vars

\* C36: once EXECUTE_STOP has been handled for an execution, no EXECUTE_ACTION
\* message is sent to the tab for that execution.
C36_NoDispatchAfterStop ==
  [][ \A i \in SentNext("EXECUTE_ACTION") : ~hist[sent'[i].eid].stopped ]_vars

\* the complete-execution requests the step issues for execution e
CompleteRequests(e) == {i \in SentNext("complete_req") : sent'[i].eid = e}

\* C37: the complete-execution request is issued at most once for each
\* execution id: a step issues at most one, and none for an execution whose
\* complete request is in flight or has returned, whether the step is the
\* loop's or the popup's stopExecution.
C37_CompleteRequestedOnce ==
  [][ \A e \in ExecIds :
        /\ Cardinality(CompleteRequests(e)) <= 1
        /\ CompleteRequests(e) # {} =>
              /\ ~hist[e].completed
              /\ \A s \in At("completing") : s.eid # e
    ]_vars

\* the popup's finish-teach request for session sid is unanswered
Finishing(sid) ==
  /\ popup # <<>>
  /\ popup[1].finishing > 0
  /\ ToString(popup[1].teachSessionId) = sid

\* C38: when finish teach is requested for a session, no submit-step request
\* of that session is in flight, and none is issued while the finish request
\* is unanswered.  (While the backend has handed out one session id, every
\* submit-step request in flight is of that session.)
C38_NoSubmitAroundFinish ==
  [][ /\ \A i \in SentNext("finish_req") :
           issued = 1 => \A c \in BagToSet(clicks) : c.pc # "submit"
      /\ \A i \in SentNext("teach_step") : ~Finishing(sent'[i].arg)
    ]_vars

\* a run or an execution is in progress
Busy == gemini.context # <<>> \/ Live(executeState)

\* the step handles a GEMINI_AGENT_RUN message and answers its sender with k
RunHandled(k) == {i \in SentNext(k) : sent'[i].arg = "GEMINI_AGENT_RUN"}

\* the step changes neither the run nor the execution, starts no loop and no
\* invocation of handleGeminiAgentRun, and tells the tab that the run is done
Refused(tab) ==
  /\ gemini' = gemini
  /\ executeState' = executeState
  /\ loops' = loops
  /\ tab # NoTab => \E j \in SentNext("GEMINI_AUTOMATION_DONE") :
                       sent'[j].idx = tab /\ sent'[j].arg \in {InProgress, AlreadyRunning}

====
